---- MODULE Spec2Model ----
(***************************************************************************)
(* Feed-ingestion -> matching -> deduplication pipeline of the two digest  *)
(* scripts: partyleaders_mentions.py (Policy A) and reform_mps.py          *)
(* (Policy B).  Text is modelled as TLA+ strings, read character by        *)
(* character with SubSeq, so that the URL and title functions are computed *)
(* the way the Python code computes them.                                  *)
(***************************************************************************)
EXTENDS Integers, Sequences, FiniteSets, TLC

(***************************************************************************)
(* Characters and strings (Python str methods and the re patterns used).   *)
(***************************************************************************)
UpperSeq == "ABCDEFGHIJKLMNOPQRSTUVWXYZ"
LowerSeq == "abcdefghijklmnopqrstuvwxyz"
DigitSeq == "0123456789"

CharAt(s, i) == SubSeq(s, i, i)

CharsOf(s) == { CharAt(s, i) : i \in 1..Len(s) }

Uppers == CharsOf(UpperSeq)
Lowers == CharsOf(LowerSeq)
Digits == CharsOf(DigitSeq)

LowerMap ==
  [ c \in Uppers |->
      CharAt(LowerSeq, CHOOSE i \in 1..Len(UpperSeq) : CharAt(UpperSeq, i) = c) ]

LowerChar(c) == IF c \in Uppers THEN LowerMap[c] ELSE c

\* str.lower()
RECURSIVE LowerFrom(_, _)
LowerFrom(s, i) ==
  IF i > Len(s) THEN "" ELSE LowerChar(CharAt(s, i)) \o LowerFrom(s, i + 1)

Lower(s) == LowerFrom(s, 1)

\* str.find(c, start) for a one-character c, 1-based; 0 when absent
RECURSIVE FindFrom(_, _, _)
FindFrom(s, c, i) ==
  IF i > Len(s) THEN 0
  ELSE IF CharAt(s, i) = c THEN i
  ELSE FindFrom(s, c, i + 1)

Find(s, c) == FindFrom(s, c, 1)

\* first position >= i of a character of the set cs; 0 when absent
RECURSIVE FindAnyFrom(_, _, _)
FindAnyFrom(s, cs, i) ==
  IF i > Len(s) THEN 0
  ELSE IF CharAt(s, i) \in cs THEN i
  ELSE FindAnyFrom(s, cs, i + 1)

StartsWith(s, p) == Len(s) >= Len(p) /\ SubSeq(s, 1, Len(p)) = p

EndsWith(s, p) ==
  Len(s) >= Len(p) /\ SubSeq(s, Len(s) - Len(p) + 1, Len(s)) = p

\* s[i:] with a 1-based i
Drop(s, i) == SubSeq(s, i, Len(s))

WhiteSpace == {" ", "\n", "\t", "\r"}

\* str.lstrip(chars) / str.rstrip(chars): strip while the character is in cs
RECURSIVE LStripChars(_, _)
LStripChars(s, cs) ==
  IF Len(s) > 0 /\ CharAt(s, 1) \in cs THEN LStripChars(Drop(s, 2), cs) ELSE s

RECURSIVE RStripChars(_, _)
RStripChars(s, cs) ==
  IF Len(s) > 0 /\ CharAt(s, Len(s)) \in cs
  THEN RStripChars(SubSeq(s, 1, Len(s) - 1), cs)
  ELSE s

\* str.strip()
Strip(s) == RStripChars(LStripChars(s, WhiteSpace), WhiteSpace)

\* str.replace(old, new)
RECURSIVE Replace(_, _, _)
Replace(s, old, new) ==
  IF Len(s) = 0 THEN ""
  ELSE IF StartsWith(s, old) THEN new \o Replace(Drop(s, Len(old) + 1), old, new)
  ELSE CharAt(s, 1) \o Replace(Drop(s, 2), old, new)

\* str.split(sep) for a one-character sep: a sequence of strings
RECURSIVE Split(_, _)
Split(s, sep) ==
  IF Find(s, sep) = 0 THEN << s >>
  ELSE << SubSeq(s, 1, Find(s, sep) - 1) >> \o Split(Drop(s, Find(s, sep) + 1), sep)

\* all characters of s are in cs
AllIn(s, cs) == \A i \in 1..Len(s) : CharAt(s, i) \in cs

\* sep.join(parts)
RECURSIVE Join(_, _)
Join(parts, sep) ==
  IF Len(parts) = 0 THEN ""
  ELSE IF Len(parts) = 1 THEN parts[1]
  ELSE parts[1] \o sep \o Join(Tail(parts), sep)

(***************************************************************************)
(* urllib.parse as the scripts call it (CPython 3.11): urlsplit,           *)
(* urlunsplit, parse_qsl(keep_blank_values=True), urlencode.               *)
(***************************************************************************)
SchemeChars == Lowers \cup Uppers \cup Digits \cup {"+", "-", "."}

\* schemes of urllib.parse.uses_netloc that URLs of the model can carry
UsesNetloc == {"", "ftp", "http", "https", "file", "ws", "wss", "sftp", "git"}

\* urlsplit, the scheme: url[:i] for i = url.find(":") when i > 0, url[0] is a
\* letter and every character of url[:i] is a scheme character
HasScheme(url) ==
  /\ Find(url, ":") > 1
  /\ CharAt(url, 1) \in Lowers \cup Uppers
  /\ AllIn(SubSeq(url, 1, Find(url, ":") - 1), SchemeChars)

SchemeOf(url) ==
  IF HasScheme(url) THEN Lower(SubSeq(url, 1, Find(url, ":") - 1)) ELSE ""

AfterScheme(url) == IF HasScheme(url) THEN Drop(url, Find(url, ":") + 1) ELSE url

\* urlsplit, the netloc: _splitnetloc(url, 2) when url[:2] == "//"
NetlocEnd(url) == FindAnyFrom(url, {"/", "?", "#"}, 3)

NetlocOf(url) ==
  IF ~StartsWith(url, "//") THEN ""
  ELSE IF NetlocEnd(url) = 0 THEN Drop(url, 3)
  ELSE SubSeq(url, 3, NetlocEnd(url) - 1)

AfterNetloc(url) ==
  IF ~StartsWith(url, "//") THEN url
  ELSE IF NetlocEnd(url) = 0 THEN ""
  ELSE Drop(url, NetlocEnd(url))

\* url.split("#", 1) and url.split("?", 1)
Before(url, c) == IF Find(url, c) > 0 THEN SubSeq(url, 1, Find(url, c) - 1) ELSE url

After(url, c) == IF Find(url, c) > 0 THEN Drop(url, Find(url, c) + 1) ELSE ""

\* ok = FALSE stands for the ValueError("Invalid IPv6 URL") that urlsplit
\* raises for a netloc with one square bracket and not the other.
SplitResult(scheme, netloc, rest) ==
  [ ok |-> (Find(netloc, "[") > 0) = (Find(netloc, "]") > 0),
    scheme |-> scheme,
    netloc |-> netloc,
    path |-> Before(Before(rest, "#"), "?"),
    query |-> After(Before(rest, "#"), "?"),
    fragment |-> After(rest, "#") ]

SplitAfterScheme(scheme, url) == SplitResult(scheme, NetlocOf(url), AfterNetloc(url))

SplitStripped(url) == SplitAfterScheme(SchemeOf(url), AfterScheme(url))

urlsplit(url) == SplitStripped(LStripChars(url, WhiteSpace))

\* urlunsplit((scheme, netloc, url, query, fragment))
WithNetloc(scheme, netloc, path) ==
  IF netloc # "" \/ (scheme # "" /\ scheme \in UsesNetloc /\ ~StartsWith(path, "//"))
  THEN "//" \o netloc \o (IF path # "" /\ ~StartsWith(path, "/") THEN "/" ELSE "")
       \o path
  ELSE path

urlunsplit(scheme, netloc, path, query, fragment) ==
  (IF scheme # "" THEN scheme \o ":" ELSE "")
  \o WithNetloc(scheme, netloc, path)
  \o (IF query # "" THEN "?" \o query ELSE "")
  \o (IF fragment # "" THEN "#" \o fragment ELSE "")

\* quote_plus: unreserved characters stay, a space becomes "+", the other
\* characters of the model's alphabet become their %XX escape.
Unreserved == Lowers \cup Uppers \cup Digits \cup {"_", ".", "-", "~"}

Escapes ==
  << <<"%", "%25">>, <<"/", "%2F">>, <<":", "%3A">>, <<"=", "%3D">>,
     <<"&", "%26">>, <<"?", "%3F">>, <<"#", "%23">>, <<"+", "%2B">>,
     <<"!", "%21">>, <<"[", "%5B">>, <<"]", "%5D">>, <<"@", "%40">>,
     <<"i", "%69">>, <<"d", "%64">> >>

QuoteChar(c) ==
  IF c \in Unreserved THEN c
  ELSE IF c = " " THEN "+"
  ELSE IF \E k \in 1..Len(Escapes) : Escapes[k][1] = c
       THEN Escapes[CHOOSE k \in 1..Len(Escapes) : Escapes[k][1] = c][2]
  ELSE c

RECURSIVE quote_plus(_)
quote_plus(s) ==
  IF Len(s) = 0 THEN "" ELSE QuoteChar(CharAt(s, 1)) \o quote_plus(Drop(s, 2))

\* unquote: the %XX escapes of the table are decoded
RECURSIVE unquote(_)
unquote(s) ==
  IF Len(s) = 0 THEN ""
  ELSE IF CharAt(s, 1) = "%" /\ Len(s) >= 3
          /\ \E k \in 1..Len(Escapes) : Escapes[k][2] = SubSeq(s, 1, 3)
       THEN Escapes[CHOOSE k \in 1..Len(Escapes) : Escapes[k][2] = SubSeq(s, 1, 3)][1]
            \o unquote(Drop(s, 4))
  ELSE CharAt(s, 1) \o unquote(Drop(s, 2))

\* one name=value field of parse_qsl with keep_blank_values=True
\* nv = name_value.split("=", 1), a missing value being ""
QslPair(name_value) ==
  << unquote(Replace(Before(name_value, "="), "+", " ")),
     unquote(Replace(After(name_value, "="), "+", " ")) >>

RECURSIVE QslPairs(_)
QslPairs(fields) ==
  IF Len(fields) = 0 THEN << >>
  ELSE (IF Head(fields) = "" THEN << >> ELSE << QslPair(Head(fields)) >>)
       \o QslPairs(Tail(fields))

parse_qsl(qs) == IF qs = "" THEN << >> ELSE QslPairs(Split(qs, "&"))

RECURSIVE EncodedPairs(_)
EncodedPairs(params) ==
  IF Len(params) = 0 THEN << >>
  ELSE << quote_plus(Head(params)[1]) \o "=" \o quote_plus(Head(params)[2]) >>
       \o EncodedPairs(Tail(params))

urlencode(params) == Join(EncodedPairs(params), "&")

(***************************************************************************)
(* Dedupe helpers, the same in both scripts.                               *)
(***************************************************************************)
_TRACKING_PREFIXES ==
  {"utm_", "gclid", "gclsrc", "fbclid", "at_", "ns_", "ito", "cmp", "icid", "ref"}

keep_keys == {"id", "p", "story", "article"}

\* not any(k.lower().startswith(p) for p in _TRACKING_PREFIXES)
NotTracking(kv) == ~\E p \in _TRACKING_PREFIXES : StartsWith(Lower(kv[1]), p)

\* the first list comprehension only: tracking keys out
RECURSIVE FilterParams_tracking_only(_)
FilterParams_tracking_only(params) ==
  IF Len(params) = 0 THEN << >>
  ELSE (IF NotTracking(Head(params)) THEN << Head(params) >> ELSE << >>)
       \o FilterParams_tracking_only(Tail(params))

\* the two list comprehensions over params: tracking keys out, keep_keys in
RECURSIVE FilterParams(_)
FilterParams(params) ==
  IF Len(params) = 0 THEN << >>
  ELSE (IF NotTracking(Head(params)) /\ Head(params)[1] \in keep_keys
        THEN << Head(params) >> ELSE << >>)
       \o FilterParams(Tail(params))

\* re.sub(r"/$", "", path): one trailing slash only
StripTrailingSlashes_once(path) ==
  IF EndsWith(path, "/") THEN SubSeq(path, 1, Len(path) - 1) ELSE path

\* re.sub(r"/+$", "", path)
StripTrailingSlashes(path) == RStripChars(path, {"/"})

CanonicalOfSplit(s) ==
  urlunsplit(IF s.scheme \in {"http", "https", ""} THEN "https" ELSE s.scheme,
             IF StartsWith(Lower(s.netloc), "www.")
             THEN Drop(Lower(s.netloc), 5) ELSE Lower(s.netloc),
             IF StripTrailingSlashes(s.path) = "" THEN "/"
             ELSE StripTrailingSlashes(s.path),
             urlencode(FilterParams(parse_qsl(s.query))),
             "")

\* what a call that raised leaves in place of a return value
Raised == "(ValueError)"

\* without the try / except: the ValueError of urlsplit leaves canonical_url
CanonicalOrInput_no_except(url, s) ==
  IF s.ok THEN CanonicalOfSplit(s) ELSE Raised

\* the except branch returns url itself, not url.strip()
CanonicalOrInput(url, s) == IF s.ok THEN CanonicalOfSplit(s) ELSE url

canonical_url(url) ==
  IF url = "" THEN "" ELSE CanonicalOrInput(url, urlsplit(Strip(url)))

\* (urlsplit(url).netloc or "").lower().lstrip("www.")
DomainOfSplit(s) == IF s.ok THEN LStripChars(Lower(s.netloc), {"w", "."}) ELSE ""

url_domain(url) == DomainOfSplit(urlsplit(url))

\* re.sub(r"[^a-z0-9]+", " ", t): every run of other characters becomes a space
RECURSIVE SubNonAlnum(_, _)
SubNonAlnum(t, inRun) ==
  IF Len(t) = 0 THEN ""
  ELSE IF CharAt(t, 1) \in Lowers \cup Digits
       THEN CharAt(t, 1) \o SubNonAlnum(Drop(t, 2), FALSE)
  ELSE (IF inRun THEN "" ELSE " ") \o SubNonAlnum(Drop(t, 2), TRUE)

\* re.sub(r"\s+", " ", t): every run of white space becomes one space
RECURSIVE CollapseSpace(_, _)
CollapseSpace(t, inRun) ==
  IF Len(t) = 0 THEN ""
  ELSE IF CharAt(t, 1) \in WhiteSpace
       THEN (IF inRun THEN "" ELSE " ") \o CollapseSpace(Drop(t, 2), TRUE)
  ELSE CharAt(t, 1) \o CollapseSpace(Drop(t, 2), FALSE)

title_fingerprint(title) ==
  Strip(CollapseSpace(SubNonAlnum(Replace(Lower(title), "&amp;", "&"), FALSE),
                      FALSE))

(***************************************************************************)
(* Matching: the regular expressions of the two matchers and               *)
(* fuzz.partial_ratio.                                                     *)
(***************************************************************************)
\* Python's None
None == "(None)"

\* \w of re
WordChars == Lowers \cup Uppers \cup Digits \cup {"_"}

IsWordAt(t, k) == k >= 1 /\ k <= Len(t) /\ CharAt(t, k) \in WordChars

\* \b between the characters k and k+1 of t
BoundaryAfter(t, k) == IsWordAt(t, k) # IsWordAt(t, k + 1)

MatchAt(t, i, w) == i >= 1 /\ i + Len(w) - 1 <= Len(t) /\ SubSeq(t, i, i + Len(w) - 1) = w

\* \bw\b matching at position i
WordAt(t, i, w) ==
  MatchAt(t, i, w) /\ BoundaryAfter(t, i - 1) /\ BoundaryAfter(t, i + Len(w) - 1)

\* re.search(rf"\b{re.escape(w)}\b", t)
SearchWord(t, w) == \E i \in 1..Len(t) : WordAt(t, i, w)

\* re.search(r"\bw1\b.{0,n}\bw2\b", t): "." matches no newline
SearchNear(t, w1, w2, n) ==
  \E i \in 1..Len(t) : \E gap \in 0..n :
    /\ WordAt(t, i, w1)
    /\ WordAt(t, i + Len(w1) + gap, w2)
    /\ \A k \in (i + Len(w1))..(i + Len(w1) + gap - 1) : CharAt(t, k) # "\n"

\* re.search(r"\bw1\s+w2\b", t) with least = 1, r"\bw1\s*w2\b" with least = 0
SearchSpaced(t, w1, w2, least) ==
  \E i \in 1..Len(t) : \E gap \in least..Len(t) :
    /\ MatchAt(t, i, w1) /\ BoundaryAfter(t, i - 1)
    /\ \A k \in (i + Len(w1))..(i + Len(w1) + gap - 1) : CharAt(t, k) \in WhiteSpace
    /\ MatchAt(t, i + Len(w1) + gap, w2)
    /\ BoundaryAfter(t, i + Len(w1) + gap + Len(w2) - 1)

\* "needle in text"
Contains(t, w) == \E i \in 1..Len(t) : MatchAt(t, i, w)

Max(a, b) == IF a >= b THEN a ELSE b

\* The row of character c of the longest-common-subsequence table from the
\* row prev of the characters before it: row[j] is the longest of prev[j] and
\* prev[k-1] + 1 for the columns k <= j whose character is c.
SetMax(S) == CHOOSE x \in S : \A y \in S : y <= x

LcsRow(c, s2, prev) ==
  [ j \in 1..Len(s2) |->
      SetMax({ prev[j] } \cup
             { (IF k = 1 THEN 0 ELSE prev[k - 1]) + 1 :
                 k \in { k \in 1..j : CharAt(s2, k) = c } }) ]

RECURSIVE LcsRows(_, _, _, _)
LcsRows(s1, s2, i, prev) ==
  IF i > Len(s1) THEN prev
  ELSE LcsRows(s1, s2, i + 1, LcsRow(CharAt(s1, i), s2, prev))

LCS(s1, s2) ==
  IF Len(s1) = 0 \/ Len(s2) = 0 THEN 0
  ELSE LcsRows(s1, s2, 1, [ j \in 1..Len(s2) |-> 0 ])[Len(s2)]

\* fuzz.ratio(s1, s2) = 100 * 2 * LCS / (len(s1) + len(s2)), kept as the
\* fraction << numerator, denominator >> of the score / 100; LCS is the length
\* of the longest common subsequence
ratio(s1, s2) ==
  IF Len(s1) + Len(s2) = 0 THEN << 1, 1 >>
  ELSE << 2 * LCS(s1, s2), Len(s1) + Len(s2) >>

\* the substrings of the longer string the shorter one is aligned with: its
\* prefixes shorter than the needle, its windows of the needle's length, and
\* its suffixes shorter than the needle
Windows(hay, m) ==
  { SubSeq(hay, 1, i) : i \in 1..(m - 1) }
    \cup { SubSeq(hay, i, i + m - 1) : i \in 1..(Len(hay) - m + 1) }
    \cup { SubSeq(hay, i, Len(hay)) : i \in (Len(hay) - m + 2)..Len(hay) }

FractionLeq(p, q) == p[1] * q[2] <= q[1] * p[2]

BestOf(scores) == CHOOSE p \in scores : \A q \in scores : FractionLeq(q, p)

AlignedScore(needle, hay) ==
  BestOf({ ratio(needle, w) : w \in Windows(hay, Len(needle)) })

\* fuzz.partial_ratio(s1, s2): the best fuzz.ratio of the shorter string
\* against a substring of the longer one
partial_ratio(s1, s2) ==
  IF Len(s1) = 0 \/ Len(s2) = 0
  THEN (IF Len(s1) = Len(s2) THEN << 1, 1 >> ELSE << 0, 1 >>)
  ELSE IF Len(s1) < Len(s2) THEN AlignedScore(s1, s2)
  ELSE IF Len(s2) < Len(s1) THEN AlignedScore(s2, s1)
  ELSE BestOf({ AlignedScore(s1, s2), AlignedScore(s2, s1) })

\* score > threshold
ScoreAtLeast_strict(p, threshold) == 100 * p[1] > threshold * p[2]

\* score >= threshold, for the score 100 * p[1] / p[2]
ScoreAtLeast(p, threshold) == 100 * p[1] >= threshold * p[2]

(***************************************************************************)
(* reform_mps.py (Policy B): find_matching_keywords and its helpers.       *)
(***************************************************************************)
KEYWORDS ==
  << "reform uk", "nigel farage", "richard tice", "lee anderson",
     "danny kruger", "sarah pochin", "david bull", "zia yusuf" >>

FUZZY_THRESHOLD_B == 88

\* a dict: its items in insertion order
REQUIRE_FULL_IF_TITLE_OR_SUMMARY_CONTAINS ==
  << << "farage", "nigel farage" >>, << "yusuf", "zia yusuf" >> >>

BODY_TRIGGERS ==
  { "farage", "yusuf", "reform", "tice", "anderson", "kruger", "pochin", "bull",
    "ed davey", "lib dem", "liberal democrat", "liberal democrats" }

\* re.search(rf"\b{re.escape(needle)}\b", text, re.IGNORECASE)
contains_word(text, needle) == SearchWord(Lower(text), Lower(needle))

\* combined = f"{title_l}\n{summary_l}"
Combined(title, summary) == Lower(title) \o "\n" \o Lower(summary)

\* tier 1, exact test only
KeywordMatches_exact_only(kw, combined) == SearchWord(combined, Lower(kw))

\* tier 1, one keyword: the exact test, then the fuzzy one
KeywordMatches(kw, combined) ==
  \/ SearchWord(combined, Lower(kw))
  \/ ScoreAtLeast(partial_ratio(Lower(kw), combined), FUZZY_THRESHOLD_B)

SetMin(S) == CHOOSE x \in S : \A y \in S : x <= y

\* the last keyword of the list that matches
FirstKeyword_last(hits) == IF hits = {} THEN None ELSE KEYWORDS[SetMax(hits)]

FirstKeyword(hits) == IF hits = {} THEN None ELSE KEYWORDS[SetMin(hits)]

\* tier 1: the first keyword of KEYWORDS that matches, None when none does
Tier1(combined) ==
  FirstKeyword({ i \in 1..Len(KEYWORDS) : KeywordMatches(KEYWORDS[i], combined) })

FirstRule(rules) ==
  IF rules = {} THEN None
  ELSE REQUIRE_FULL_IF_TITLE_OR_SUMMARY_CONTAINS[SetMin(rules)][2]

\* tier 2: the full name of the first rule whose surname is a word of the
\* title or of the summary, None when there is none
SurnameRule(title_l, summary_l) ==
  FirstRule({ i \in 1..Len(REQUIRE_FULL_IF_TITLE_OR_SUMMARY_CONTAINS) :
                \/ contains_word(title_l,
                                 REQUIRE_FULL_IF_TITLE_OR_SUMMARY_CONTAINS[i][1])
                \/ contains_word(summary_l,
                                 REQUIRE_FULL_IF_TITLE_OR_SUMMARY_CONTAINS[i][1]) })

\* tier 3: any(contains_word(combined, trig) for trig in BODY_TRIGGERS)
HasBodyTrigger(combined) == \E trig \in BODY_TRIGGERS : contains_word(combined, trig)

_full_name_satisfied(article_text, full_name) ==
  /\ Lower(article_text) # ""
  /\ \/ SearchWord(Lower(article_text), full_name)
     \/ /\ Contains(full_name, "farage")
        /\ \/ SearchSpaced(Lower(article_text), "mr", "farage", 1)
           \/ SearchNear(Lower(article_text), "nigel", "farage", 40)
           \/ SearchNear(Lower(article_text), "farage", "nigel", 40)
     \/ /\ Contains(full_name, "yusuf")
        /\ \/ SearchNear(Lower(article_text), "zia", "yusuf", 40)
           \/ SearchNear(Lower(article_text), "yusuf", "zia", 40)

BodyTargets ==
  << "nigel farage", "richard tice", "lee anderson", "danny kruger",
     "sarah pochin", "david bull", "zia yusuf" >>

TargetMatches(t, full) ==
  IF Contains(full, "farage") \/ Contains(full, "yusuf")
  THEN _full_name_satisfied(t, full)
  ELSE SearchWord(t, full)

FirstTarget(hits) ==
  IF hits = {} THEN [ ok |-> FALSE, hit |-> None ]
  ELSE [ ok |-> TRUE, hit |-> BodyTargets[SetMin(hits)] ]

_body_matches_targets(article_text) ==
  IF Lower(article_text) = "" THEN [ ok |-> FALSE, hit |-> None ]
  ELSE IF \/ SearchSpaced(Lower(article_text), "reform", "uk", 0)
          \/ SearchNear(Lower(article_text), "reform", "party", 12)
  THEN [ ok |-> TRUE, hit |-> "reform uk" ]
  ELSE FirstTarget({ i \in 1..Len(BodyTargets) :
                       TargetMatches(Lower(article_text), BodyTargets[i]) })

(***************************************************************************)
(* partyleaders_mentions.py (Policy A): normalize_text and find_all_hits.  *)
(* Text is ASCII here, on which unicodedata.normalize("NFKC", s) and the   *)
(* replacement of the curly apostrophe change nothing; of the entities of  *)
(* html.unescape the text has "&amp;" only.                                *)
(***************************************************************************)
LEADER_ALIASES ==
  << [ canonical |-> "nigel farage", aliases |-> << "nigel farage", "farage" >> ],
     [ canonical |-> "keir starmer", aliases |-> << "keir starmer", "starmer" >> ],
     [ canonical |-> "kemi badenoch", aliases |-> << "kemi badenoch", "badenoch" >> ],
     [ canonical |-> "john swinney", aliases |-> << "john swinney", "swinney" >> ],
     [ canonical |-> "ed davey", aliases |-> << "ed davey", "davey" >> ],
     [ canonical |-> "rhun ap iorwerth",
       aliases |-> << "rhun ap iorwerth", "ap iorwerth", "iorwerth" >> ],
     [ canonical |-> "mary lou mcdonald",
       aliases |-> << "mary lou mcdonald", "mcdonald" >> ],
     [ canonical |-> "gavin robinson", aliases |-> << "gavin robinson" >> ] >>

FUZZY_THRESHOLD_A == 80

normalize_text(s) ==
  Lower(Strip(CollapseSpace(Replace(s, "&amp;", "&"), FALSE)))

\* one alias against the text: the word-boundary test, then the fuzzy backup
AliasMatches(a, text) ==
  \/ SearchWord(text, normalize_text(a))
  \/ ScoreAtLeast(partial_ratio(normalize_text(a), text), FUZZY_THRESHOLD_A)

\* for a in aliases: ... hits.append(canonical); break
LeaderMatches(aliases, text) ==
  \E i \in 1..Len(aliases) : AliasMatches(aliases[i], text)

RECURSIVE HitsFrom(_, _)
HitsFrom(text, i) ==
  IF i > Len(LEADER_ALIASES) THEN << >>
  ELSE (IF LeaderMatches(LEADER_ALIASES[i].aliases, text)
        THEN << LEADER_ALIASES[i].canonical >> ELSE << >>)
       \o HitsFrom(text, i + 1)

find_all_hits(title_raw, summary_raw) ==
  HitsFrom(normalize_text(title_raw \o "\n" \o summary_raw), 1)

(***************************************************************************)
(* strip_html of the two scripts, extract_google_target, and the time      *)
(* window.  Time is counted in hours of UTC; London is on summer time.     *)
(***************************************************************************)
MinOrZero(S) == IF S = {} THEN 0 ELSE SetMin(S)

\* str.find(pat, start), 1-based; 0 when absent
FindStr(s, pat, i) == MinOrZero({ k \in i..Len(s) : MatchAt(s, k, pat) })

\* where the match of <[^>]+> that starts at the first character ends, or 0
TagEnd(s) ==
  IF CharAt(s, 1) = "<" /\ FindFrom(s, ">", 2) >= 3 THEN FindFrom(s, ">", 2)
  ELSE 0

\* re.sub(r"<[^>]+>", " ", s)
RECURSIVE SubTags(_)
SubTags(s) ==
  IF Len(s) = 0 THEN ""
  ELSE IF TagEnd(s) > 0 THEN " " \o SubTags(Drop(s, TagEnd(s) + 1))
  ELSE CharAt(s, 1) \o SubTags(Drop(s, 2))

\* where the match of <!--.*?--> that starts at the first character ends, or 0
CommentEnd(s) ==
  IF MatchAt(s, 1, "<!--") /\ FindStr(s, "-->", 5) > 0
  THEN FindStr(s, "-->", 5) + 2
  ELSE 0

\* re.sub(r"(?is)<!--.*?-->", " ", s)
RECURSIVE SubComments(_)
SubComments(s) ==
  IF Len(s) = 0 THEN ""
  ELSE IF CommentEnd(s) > 0 THEN " " \o SubComments(Drop(s, CommentEnd(s) + 1))
  ELSE CharAt(s, 1) \o SubComments(Drop(s, 2))

BlockNames ==
  { "script", "style", "noscript", "template", "svg", "iframe", "picture",
    "source" }

\* <name.*?>.*?</name> from the first character, letter case ignored: the
\* first ">" after the name, then the first "</name>" after it
BlockEndOf(low, name) ==
  IF MatchAt(low, 1, "<" \o name) /\ FindFrom(low, ">", Len(name) + 2) > 0
     /\ FindStr(low, "</" \o name \o ">", FindFrom(low, ">", Len(name) + 2) + 1) > 0
  THEN FindStr(low, "</" \o name \o ">", FindFrom(low, ">", Len(name) + 2) + 1)
         + Len(name) + 2
  ELSE 0

BlockEnd(s) == SetMax({ BlockEndOf(Lower(s), name) : name \in BlockNames })

\* re.sub(r"(?is)<(script|style|...).*?>.*?</\1>", " ", s)
RECURSIVE SubBlocks(_)
SubBlocks(s) ==
  IF Len(s) = 0 THEN ""
  ELSE IF BlockEnd(s) > 0 THEN " " \o SubBlocks(Drop(s, BlockEnd(s) + 1))
  ELSE CharAt(s, 1) \o SubBlocks(Drop(s, 2))

\* partyleaders_mentions.py
strip_html_A(s) == Strip(CollapseSpace(SubTags(s), FALSE))

\* reform_mps.py
strip_html_B(s) ==
  Strip(CollapseSpace(SubTags(SubComments(SubBlocks(s))), FALSE))

\* norm(s) = (s or "").strip()
norm(s) == Strip(s)

SUMMARY_CHARS == 320

\* s[:n]
Take(s, n) == SubSeq(s, 1, IF n < Len(s) THEN n ELSE Len(s))

\* parse_qs(query).get(name): the values of the non-blank fields called name
RECURSIVE ValuesOf(_, _)
ValuesOf(pairs, name) ==
  IF Len(pairs) = 0 THEN << >>
  ELSE (IF Head(pairs)[1] = name /\ Head(pairs)[2] # ""
        THEN << Head(pairs)[2] >> ELSE << >>)
       \o ValuesOf(Tail(pairs), name)

\* (qs.get("url") or qs.get("u") or [None])[0], "" standing for None
RealTarget(pairs) ==
  IF ValuesOf(pairs, "url") # << >> THEN ValuesOf(pairs, "url")[1]
  ELSE IF ValuesOf(pairs, "u") # << >> THEN ValuesOf(pairs, "u")[1]
  ELSE ""

GoogleTargetOfSplit(u, s) ==
  IF ~s.ok THEN u
  ELSE IF ~Contains(Lower(s.netloc), "news.google.com") THEN u
  ELSE IF RealTarget(parse_qsl(s.query)) # ""
  THEN RealTarget(parse_qsl(s.query)) ELSE u

extract_google_target(u) == GoogleTargetOfSplit(u, urlsplit(u))

\* tz.gettz("Europe/London") on the day of the run: UTC+1
LondonOffset == 1

\* now_local.date(), as a day number
Today == 1

\* start_local = midnight of today in London, end_local a day later
start_utc == Today * 24 - LondonOffset

end_utc == start_utc + 24

\* dt_utc.astimezone(london_tz).date()
LondonDate(dt_utc) == (dt_utc + LondonOffset) \div 24

\* partyleaders_mentions.py: dt_lon.date() == target_date
InWindowA(dt_utc) == LondonDate(dt_utc) = Today

\* the window with its end included
InWindowB_closed(dt_utc) == start_utc <= dt_utc /\ dt_utc <= end_utc

\* reform_mps.py: start_utc <= dt_utc < end_utc
InWindowB(dt_utc) == start_utc <= dt_utc /\ dt_utc < end_utc

(***************************************************************************)
(* Feed entries.  Titles and summaries (Texts), the links of the entries   *)
(* (FeedLinks; MatcherUrls once Google News wrappers are unwrapped), and   *)
(* what the network returns for an article (ArticleTexts, "" when the      *)
(* request fails).                                                         *)
(***************************************************************************)
Texts ==
  { [ title |-> "Reform surges", summary |-> "Farage" ],
    [ title |-> "Reform surges", summary |-> "Nigel Farage" ],
    [ title |-> "Nigel Farage speaks", summary |-> "" ],
    [ title |-> "Party surges", summary |-> "Farage" ],
    [ title |-> "Yusuf quits", summary |-> "" ],
    [ title |-> "Tice speaks", summary |-> "" ],
    [ title |-> "Weather today", summary |-> "Sunny" ] }

\* the texts of the entries of the feeds: one with markup and a keyword, one
\* with a body trigger, one with neither
FeedTexts ==
  { [ title |-> "<b>Nigel Farage</b>  speaks", summary |-> "" ],
    [ title |-> "Tice speaks", summary |-> "" ],
    [ title |-> "Weather today", summary |-> "Sunny" ] }

MatcherUrls ==
  { "https://www.bbc.co.uk/news/1", "https://www.theguardian.com/p/1", "" }

FeedLinks ==
  { "https://www.bbc.co.uk/news/1",
    "https://news.google.com/a?url=https%3A%2F%2Fwww.theguardian.com%2Fp%2F1" }

ArticleTexts ==
  { "", "nigel farage and reform uk", "richard tice spoke",
    "the weather is sunny" }

\* what the network returns for the links of the feeds
FeedArticleTexts == { "", "richard tice spoke" }

(***************************************************************************)
(* The links and titles of the items dedupe is run on, and the three       *)
(* helpers tabulated over them: CanonicalOf[u] is canonical_url(u),        *)
(* DomainOf[u] is url_domain(u), FingerprintOf[t] is title_fingerprint(t), *)
(* each computed once instead of once per state.                           *)
(***************************************************************************)
DedupeLinks ==
  { "https://www.example.com/a/?utm_source=x",
    "http://example.com/a",
    "https://example.com/b",
    "https://wired.com/a",
    "https://ired.com/a",
    "https://news.google.com/x",
    "" }

DedupeTitles == { "Farage wins", "FARAGE  wins!", "Tice speaks" }

\* The items of a day with more matches than the digest takes: item i has its
\* own link and title, but that in the lists with repeats ("dups") item 3 has
\* the link of item 1 and item 5 the title of item 4.
DigestVariants == { "distinct", "dups" }

DigestItem(i, variant) ==
  [ link |-> "https://example.com/n/"
               \o ToString(IF variant = "dups" /\ i = 3 THEN 1 ELSE i),
    title |-> "Story "
               \o ToString(IF variant = "dups" /\ i = 5 THEN 4 ELSE i) ]

\* the lists are up to this much longer than MAX_RESULTS_PER_DAY
Overshoot == 3

MAX_RESULTS_PER_DAY_A == 500

MAX_RESULTS_PER_DAY_B == 600

DigestLinks ==
  { DigestItem(i, "distinct").link :
      i \in 1..(MAX_RESULTS_PER_DAY_B + Overshoot + 1) }

DigestTitles ==
  { DigestItem(i, "distinct").title :
      i \in 1..(MAX_RESULTS_PER_DAY_B + Overshoot + 1) }

ItemLinks == DedupeLinks \cup FeedLinks \cup MatcherUrls \cup DigestLinks

CanonicalOf == [ u \in ItemLinks |-> canonical_url(u) ]

DomainOf ==
  [ u \in ItemLinks \cup { canonical_url(v) : v \in ItemLinks } |->
      url_domain(u) ]

ItemTitles ==
  DedupeTitles \cup { strip_html_A(t.title) : t \in FeedTexts }
               \cup { strip_html_B(t.title) : t \in FeedTexts }
               \cup DigestTitles

FingerprintOf == [ t \in ItemTitles |-> title_fingerprint(t) ]

(***************************************************************************)
(* State.                                                                  *)
(*   pc        position of the run                                         *)
(*   policy    "A" partyleaders_mentions.py, "B" reform_mps.py             *)
(*   all_items the items handed to dedupe, in fetch order                  *)
(*   seen_urls, seen_titles_by_domain, seen_titles_global, result          *)
(*             the locals of dedupe                                        *)
(*   locals    per processed item: can, domain and tfp of the item as      *)
(*             dedupe computes them, and how its iteration ended ("kept",  *)
(*             or "url" / "title" for the two continue statements)         *)
(***************************************************************************)
VARIABLES pc, policy, all_items, seen_urls, seen_titles_by_domain,
          seen_titles_global, result, locals,
          url_in, url_out,
          BODY_FETCH_BUDGET, article_cache, fetch_calls, call,
          fuzzy_in, fuzzy_out,
          feed_ix, entry_ix, out, entry, failed,
          run, parsed, responses, digests, invocations

dedupeVars == << all_items, seen_urls, seen_titles_by_domain,
                 seen_titles_global, result, locals >>

\* canonical_url: its two arguments and the two strings it returned
urlVars == << url_in, url_out >>

\* reform_mps.py: the module global BODY_FETCH_BUDGET, the lru_cache of
\* fetch_article_text, the number of calls of fetch_article_text so far, and
\* the last call of find_matching_keywords with what it returned
matcherVars == << BODY_FETCH_BUDGET, article_cache, fetch_calls, call >>

\* fuzz.partial_ratio: its arguments, and the score and the decision
fuzzyVars == << fuzzy_in, fuzzy_out >>

\* main and fetch_feed: the feed being read, the entry reached in it, the
\* list fetch_feed is building, the entry just read, the feeds that raised
feedVars == << feed_ix, entry_ix, out, entry, failed >>

\* the run of main in progress (main may be called again), what
\* feedparser.parse returns for each feed and what the network returns for each
\* URL when they are fixed for the runs (<< >> when any content may come), and
\* the lists given to make_pdf by the runs so far
runVars == << run, parsed, responses, digests, invocations >>

vars == << pc, policy, dedupeVars, urlVars, matcherVars, fuzzyVars, feedVars,
           runVars >>

DedupeIdle ==
  /\ all_items = << >>
  /\ seen_urls = {}
  /\ seen_titles_by_domain = << >>
  /\ seen_titles_global = {}
  /\ result = << >>
  /\ locals = << >>

UrlIdle == url_in = << >> /\ url_out = << >>

\* reform_mps.py line 78: BODY_FETCH_BUDGET = 80
BudgetAtStart == 80

MatcherIdle ==
  /\ BODY_FETCH_BUDGET = BudgetAtStart
  /\ article_cache = << >>
  /\ fetch_calls = 0
  /\ call = << >>

FuzzyIdle == fuzzy_in = << >> /\ fuzzy_out = << >>

FeedIdle ==
  /\ feed_ix = 0
  /\ entry_ix = 0
  /\ out = << >>
  /\ entry = << >>
  /\ failed = {}

RunIdle ==
  /\ run = 1
  /\ parsed = << >>
  /\ responses = << >>
  /\ digests = << >>
  /\ invocations = << >>

(***************************************************************************)
(* dedupe: one iteration of "for it in items", as a function of the        *)
(* locals before it.  why is "url" / "title" for the two continue          *)
(* statements and "kept" for result.append(it).                            *)
(***************************************************************************)
DedupeState ==
  [ seen_urls |-> seen_urls, by_domain |-> seen_titles_by_domain,
    global |-> seen_titles_global, result |-> result ]

Bucket(by_domain, domain) ==
  IF domain \in DOMAIN by_domain THEN by_domain[domain] ELSE {}

\* seen_titles_by_domain.setdefault(domain, set()), then bucket.add(tfp)
AddToBucket(by_domain, domain, tfp) ==
  [ d \in DOMAIN by_domain \cup {domain} |->
      IF d = domain THEN Bucket(by_domain, domain) \cup {tfp} ELSE by_domain[d] ]

\* dedupe_iter_A with one set of title fingerprints for every domain
dedupe_iter_A_one_pool(st, it) ==
  LET url == it.link
      can == CanonicalOf[url]
      domain == DomainOf[IF can # "" THEN can ELSE url]
      tfp == FingerprintOf[it.title]
      seen1 == IF can # "" THEN st.seen_urls \cup {can} ELSE st.seen_urls
      loc == [ can |-> can, domain |-> domain, tfp |-> tfp ]
  IN  IF can # "" /\ can \in st.seen_urls
      THEN [ st |-> st, local |-> loc, why |-> "url" ]
      ELSE IF tfp \in st.global
      THEN [ st |-> [ st EXCEPT !.seen_urls = seen1 ], local |-> loc,
             why |-> "title" ]
      ELSE [ st |-> [ st EXCEPT !.seen_urls = seen1,
                                !.global = @ \cup {tfp},
                                !.result = Append(@, it) ],
             local |-> loc, why |-> "kept" ]

\* partyleaders_mentions.py
dedupe_iter_A(st, it) ==
  LET url == it.link
      can == CanonicalOf[url]
      domain == DomainOf[IF can # "" THEN can ELSE url]
      tfp == FingerprintOf[it.title]
      seen1 == IF can # "" THEN st.seen_urls \cup {can} ELSE st.seen_urls
      loc == [ can |-> can, domain |-> domain, tfp |-> tfp ]
  IN  IF can # "" /\ can \in st.seen_urls
      THEN [ st |-> st, local |-> loc, why |-> "url" ]
      ELSE IF domain = "news.google.com" \/ domain = ""
      THEN IF tfp \in st.global
           THEN [ st |-> [ st EXCEPT !.seen_urls = seen1 ], local |-> loc,
                  why |-> "title" ]
           ELSE [ st |-> [ st EXCEPT !.seen_urls = seen1,
                                     !.global = @ \cup {tfp},
                                     !.result = Append(@, it) ],
                  local |-> loc, why |-> "kept" ]
      ELSE IF tfp \in Bucket(st.by_domain, domain)
           THEN [ st |-> [ st EXCEPT !.seen_urls = seen1,
                                     !.by_domain = AddToBucket(@, domain, tfp) ],
                  local |-> loc, why |-> "title" ]
           ELSE [ st |-> [ st EXCEPT !.seen_urls = seen1,
                                     !.by_domain = AddToBucket(@, domain, tfp),
                                     !.result = Append(@, it) ],
                  local |-> loc, why |-> "kept" ]

\* dedupe_iter_B without "if can in seen_urls: continue"
dedupe_iter_B_no_url_check(st, it) ==
  LET url == it.link
      can == CanonicalOf[url]
      domain == DomainOf[IF can # "" THEN can ELSE url]
      tfp == FingerprintOf[it.title]
      loc == [ can |-> can, domain |-> domain, tfp |-> tfp ]
  IN  IF tfp \in Bucket(st.by_domain, domain)
      THEN [ st |-> st, local |-> loc, why |-> "title" ]
      ELSE [ st |-> [ st EXCEPT !.by_domain = AddToBucket(@, domain, tfp),
                                !.result = Append(@, it) ],
             local |-> loc, why |-> "kept" ]

\* reform_mps.py: every domain, the empty one too, has its own bucket
dedupe_iter_B(st, it) ==
  LET url == it.link
      can == CanonicalOf[url]
      domain == DomainOf[IF can # "" THEN can ELSE url]
      tfp == FingerprintOf[it.title]
      seen1 == IF can # "" THEN st.seen_urls \cup {can} ELSE st.seen_urls
      loc == [ can |-> can, domain |-> domain, tfp |-> tfp ]
  IN  IF can # "" /\ can \in st.seen_urls
      THEN [ st |-> st, local |-> loc, why |-> "url" ]
      ELSE IF tfp \in Bucket(st.by_domain, domain)
           THEN [ st |-> [ st EXCEPT !.seen_urls = seen1,
                                     !.by_domain = AddToBucket(@, domain, tfp) ],
                  local |-> loc, why |-> "title" ]
           ELSE [ st |-> [ st EXCEPT !.seen_urls = seen1,
                                     !.by_domain = AddToBucket(@, domain, tfp),
                                     !.result = Append(@, it) ],
                  local |-> loc, why |-> "kept" ]

\* dedupe is run on lists of up to MaxItems items: every link, every title
MaxItems == 3

DedupeItems == [ link : DedupeLinks, title : DedupeTitles ]

InitDedupe ==
  /\ pc = "dedupe"
  /\ policy \in {"A", "B"}
  /\ DedupeIdle /\ UrlIdle /\ MatcherIdle /\ FuzzyIdle /\ FeedIdle /\ RunIdle

\* the next iteration of the loop, on the next item of the list
DedupeApply(r, it) ==
  /\ all_items' = Append(all_items, it)
  /\ seen_urls' = r.st.seen_urls
  /\ seen_titles_by_domain' = r.st.by_domain
  /\ seen_titles_global' = r.st.global
  /\ result' = r.st.result
  /\ locals' = Append(locals, [ can |-> r.local.can, domain |-> r.local.domain,
                                tfp |-> r.local.tfp, why |-> r.why ])

DedupeStepA ==
  /\ pc = "dedupe" /\ policy = "A"
  /\ Len(all_items) < MaxItems
  /\ \E it \in DedupeItems : DedupeApply(dedupe_iter_A(DedupeState, it), it)
  /\ UNCHANGED << pc, policy, urlVars, matcherVars, fuzzyVars, runVars, feedVars >>

DedupeStepB ==
  /\ pc = "dedupe" /\ policy = "B"
  /\ Len(all_items) < MaxItems
  /\ \E it \in DedupeItems : DedupeApply(dedupe_iter_B(DedupeState, it), it)
  /\ UNCHANGED << pc, policy, urlVars, matcherVars, fuzzyVars, runVars, feedVars >>

NextDedupe == DedupeStepA \/ DedupeStepB

SpecDedupe == InitDedupe /\ [][NextDedupe]_vars

(***************************************************************************)
(* Claims about dedupe (SpecDedupe).  Item i of the input is in the output *)
(* iff its iteration ended with result.append: locals[i].why = "kept".     *)
(***************************************************************************)
Processed == 1..Len(locals)

Kept(i) == locals[i].why = "kept"

SameUrl(i, j) == locals[i].can # "" /\ locals[i].can = locals[j].can

FirstWithUrl(i) == \A k \in Processed : k < i => ~SameUrl(k, i)

\* the set a title fingerprint is deduplicated against
Pool(domain) ==
  IF policy = "A" /\ (domain = "news.google.com" \/ domain = "")
  THEN "(global)" ELSE domain

SamePoolAndTitle(i, j) ==
  /\ Pool(locals[i].domain) = Pool(locals[j].domain)
  /\ locals[i].tfp = locals[j].tfp

\* C1 as claimed: of every pair of items with the same non-empty canonical URL
\* the first-encountered one (the first item of the list with that URL) is in
\* the output and the later one is not.
C1_FirstOfPairSurvives ==
  \A i, j \in Processed :
    (i < j /\ SameUrl(i, j) /\ FirstWithUrl(i)) => (Kept(i) /\ ~Kept(j))

\* C1 amended: of every pair of items with the same non-empty canonical URL the
\* later one is never in the output; the first item of the list with that URL is
\* in the output unless an earlier surviving item of its fingerprint pool has the
\* same title fingerprint, and then no item with that URL is in the output.
C1_LaterOfPairDropped ==
  /\ \A i, j \in Processed : (i < j /\ SameUrl(i, j)) => ~Kept(j)
  /\ \A i \in Processed :
       (locals[i].can # "" /\ FirstWithUrl(i)) =>
         (Kept(i) <=> ~\E k \in Processed :
                          k < i /\ Kept(k) /\ SamePoolAndTitle(k, i))

\* two different links with one canonical URL: the first kept, the second
\* dropped for its URL
C1_Witness ==
  \E i, j \in Processed :
    /\ i < j /\ SameUrl(i, j)
    /\ all_items[i].link # all_items[j].link
    /\ Kept(i) /\ locals[j].why = "url"

\* the host name of an item's canonical URL: lower case, one leading "www." removed
HostOf == [ u \in DedupeLinks |-> urlsplit(CanonicalOf[u]).netloc ]

Host(i) == HostOf[all_items[i].link]

NonAggregator(i) == Host(i) # "" /\ Host(i) # "news.google.com"

\* C2 as claimed: among items of one non-aggregator domain with one title
\* fingerprint no later one survives, and an item is never dropped for its title
\* when every earlier item with that title fingerprint is on another host.
C2_FingerprintPerDomain ==
  /\ \A i, j \in Processed :
       ( /\ i < j /\ NonAggregator(i) /\ Host(i) = Host(j)
         /\ locals[i].tfp = locals[j].tfp ) => ~Kept(j)
  /\ \A j \in Processed :
       (NonAggregator(j) /\ locals[j].why = "title") =>
         \E i \in Processed :
           i < j /\ Host(i) = Host(j) /\ locals[i].tfp = locals[j].tfp

\* one of the two items has an empty domain, the other the aggregator's
EmptyAndAggregator(i, j) ==
  { locals[i].domain, locals[j].domain } = { "", "news.google.com" }

\* C15 as claimed: in the dedupe of both policies the items with an empty
\* domain and those on news.google.com share one fingerprint set: of two items
\* with distinct canonical URLs and the same title fingerprint, one with an
\* empty domain and one on the aggregator's, the later one does not survive
\* once the first has.
C15_OneGlobalPool ==
  \A i, j \in Processed :
    ( /\ i < j /\ EmptyAndAggregator(i, j)
      /\ locals[i].can # locals[j].can
      /\ locals[i].tfp = locals[j].tfp
      /\ Kept(i) ) => ~Kept(j)

\* an earlier item that is in the output and a duplicate of item j
SurvivingDuplicate(i, j) ==
  i < j /\ Kept(i) /\ (SameUrl(i, j) \/ SamePoolAndTitle(i, j))

\* C22 as claimed: every item that dedupe drops is a duplicate of an earlier
\* item that is in the output: a surviving earlier item has the same canonical
\* URL, or the same title fingerprint in the same fingerprint pool.
C22_EveryDropHasSurvivor ==
  \A j \in Processed :
    ~Kept(j) => \E i \in Processed : SurvivingDuplicate(i, j)

\* C22 amended: every item that dedupe drops is dropped for its URL or for its
\* title; it is dropped for its URL exactly when an earlier item of the list,
\* in the output or not, has the same canonical URL, and the first item with
\* that URL was kept or dropped for its title; it is dropped for its title
\* only when an earlier item that is in the output has the same title
\* fingerprint in the same fingerprint pool.
C22_EveryDropHasEarlierDuplicate ==
  \A j \in Processed :
    /\ ~Kept(j) => locals[j].why \in {"url", "title"}
    /\ locals[j].why = "url" <=> \E i \in Processed : i < j /\ SameUrl(i, j)
    /\ locals[j].why = "url" =>
         \E i \in Processed :
           /\ i < j /\ SameUrl(i, j) /\ FirstWithUrl(i)
           /\ locals[i].why \in {"kept", "title"}
    /\ locals[j].why = "title" =>
         \E i \in Processed : i < j /\ Kept(i) /\ SamePoolAndTitle(i, j)

\* the second item is dropped for its title and the third for the URL of the
\* second: no item in the output has the URL of the third, or its title
C22_Witness ==
  /\ Len(locals) = 3
  /\ Kept(1) /\ locals[2].why = "title" /\ locals[3].why = "url"
  /\ SameUrl(2, 3) /\ ~SameUrl(1, 3)
  /\ locals[3].tfp # locals[1].tfp
  /\ ~\E i \in Processed : SurvivingDuplicate(i, 3)

(***************************************************************************)
(* canonical_url on pairs of URLs that differ only in the parts it is      *)
(* written to normalise.  A URL is a base (host, path, a query parameter   *)
(* that is kept) written in one of the variants: scheme, a leading "www."  *)
(* before the host, the host in another letter case, trailing slashes, a   *)
(* tracking parameter before or after the kept one, a fragment.            *)
(***************************************************************************)
UrlBases ==
  { [ host |-> "example.com", HOST |-> "Example.COM",
      path |-> "/news/story", query |-> "id=42" ],
    [ host |-> "example.com", HOST |-> "EXAMPLE.com",
      path |-> "", query |-> "" ],
    [ host |-> "www.example.com", HOST |-> "WWW.Example.com",
      path |-> "/a", query |-> "" ],
    [ host |-> "[::1", HOST |-> "[::1",
      path |-> "/a", query |-> "" ] }

UrlVariants ==
  [ scheme : {"http", "https"}, www : {"", "www."}, upper : BOOLEAN,
    slashes : {"", "/", "//"}, tracking : {"none", "before", "after"},
    fragment : {"", "#top"} ]

QueryOf(query, tracking) ==
  CASE tracking = "none" -> IF query = "" THEN "" ELSE "?" \o query
    [] tracking = "before" ->
         "?utm_source=x" \o (IF query = "" THEN "" ELSE "&" \o query)
    [] tracking = "after" ->
         "?" \o (IF query = "" THEN "" ELSE query \o "&") \o "fbclid=z"

MakeUrl(b, v) ==
  v.scheme \o "://" \o v.www \o (IF v.upper THEN b.HOST ELSE b.host)
    \o b.path \o v.slashes \o QueryOf(b.query, v.tracking) \o v.fragment

UrlInputs == { MakeUrl(b, v) : b \in UrlBases, v \in UrlVariants }

\* canonical_url(u), and whether urlsplit(u.strip()) returned (TRUE) or raised
CanonicalUrlOf == [ u \in UrlInputs |-> canonical_url(u) ]

UrlParses == [ u \in UrlInputs |-> urlsplit(Strip(u)).ok ]

InitUrl ==
  /\ pc = "canonical_url"
  /\ policy \in {"A", "B"}
  /\ url_in \in [ base : UrlBases, v1 : UrlVariants, v2 : UrlVariants ]
  /\ url_out = << >>
  /\ DedupeIdle /\ MatcherIdle /\ FuzzyIdle /\ FeedIdle /\ RunIdle

\* canonical_url is called on the two URLs
Canonicalize ==
  /\ pc = "canonical_url"
  /\ url_out = << >>
  /\ url_out' = << CanonicalUrlOf[MakeUrl(url_in.base, url_in.v1)],
                   CanonicalUrlOf[MakeUrl(url_in.base, url_in.v2)] >>
  /\ UNCHANGED << pc, policy, url_in, dedupeVars, matcherVars, fuzzyVars, runVars,
                  feedVars >>

NextUrl == Canonicalize

SpecUrl == InitUrl /\ [][NextUrl]_vars

Url1 == MakeUrl(url_in.base, url_in.v1)

Url2 == MakeUrl(url_in.base, url_in.v2)

\* C6 as claimed: two URLs that differ only in scheme http/https, a leading
\* "www." on the host, host letter case, trailing slashes, tracking parameters
\* and fragment are mapped to the same string by canonical_url.
C6_VariantsCanonicalizeAlike ==
  url_out # << >> => url_out[1] = url_out[2]

\* C6 amended: such two URLs are mapped to the same string when urlsplit parses
\* both and the host does not itself begin with "www." once the optional leading
\* "www." is taken off; a URL urlsplit rejects is returned unchanged, and of a
\* host "www.www.example.com" only the first "www." is removed.
C6_ParsedVariantsCanonicalizeAlike ==
  url_out # << >> =>
    /\ (/\ UrlParses[Url1] /\ UrlParses[Url2]
        /\ ~StartsWith(url_in.base.host, "www."))
         => url_out[1] = url_out[2]
    /\ ~UrlParses[Url1] => url_out[1] = Url1
    /\ (UrlParses[Url1] /\ UrlParses[Url2]
        /\ StartsWith(url_in.base.host, "www."))
         => (url_out[1] = url_out[2] <=> url_in.v1.www = url_in.v2.www)

\* the two URLs of the claim, and two that differ in all six parts
C6_Witness ==
  /\ url_out # << >>
  /\ url_in.base.host = "example.com" /\ url_in.base.query = "id=42"
  /\ \/ /\ Url1 = "https://www.example.com/news/story/?utm_source=x&id=42"
        /\ Url2 = "https://example.com/news/story/?id=42"
     \/ /\ url_in.v1.scheme # url_in.v2.scheme /\ url_in.v1.www # url_in.v2.www
        /\ url_in.v1.upper # url_in.v2.upper
        /\ url_in.v1.slashes # url_in.v2.slashes
        /\ url_in.v1.tracking # url_in.v2.tracking
        /\ url_in.v1.fragment # url_in.v2.fragment
  /\ url_out[1] = "https://example.com/news/story?id=42"
  /\ url_out[2] = url_out[1]

(***************************************************************************)
(* canonical_url on one input string: the URLs above, and strings that are *)
(* empty, padded with white space, relative, without a scheme, with        *)
(* another scheme, with repeated, blank, escaped, upper-case and unknown   *)
(* query parameters, or that urlsplit rejects.                             *)
(***************************************************************************)
OddUrls ==
  { "",
    " ",
    "  https://www.Example.com/a/  ",
    " http://[::1/a/?id=1#top ",
    "http://[::1]/a/",
    "https://example.com]/a",
    "/local/a/",
    "a/b//",
    "////",
    "https:////x/",
    "//example.com//a//b//",
    "example.com/a?b=1",
    "mailto:x@example.com",
    "mailto:",
    "ftp://www.example.com/pub/?p=1#x",
    "HTTPS://WWW.EXAMPLE.COM",
    "https://example.com/?#",
    "https://example.com/a?p=1&id=2&x=3&utm_source=y#frag",
    "https://example.com/a?x=3&story=s&y=4&article=a&p=1&id=2",
    "https://example.com/a?id=1&id=2&id=1",
    "https://example.com/a/?ID=1&Id=2&id=",
    "https://example.com/a?id&p&&=x",
    "https://example.com/a?story=a%2Fb&article=c+d%3F",
    "https://example.com/a?%69d=1&i%64=2",
    "https://example.com/a?ref=1&ito=2&icid=3&cmp=4&at_x=5&ns_y=6&gclid=7",
    "https://example.com/a?UTM_medium=1&Fbclid=2&p=9",
    "https://example.com/a?identity=1&page=2&stories=3&articles=4",
    "https://example.com/a/#/b/",
    "https://example.com/a#?id=1",
    "https://example.com/a/?next=/b/",
    "https://www.www.example.com/a",
    "https://example.com/a",
    "https:////x/" }

CanonInputs == OddUrls \cup UrlInputs

CanonOf == [ u \in CanonInputs |-> canonical_url(u) ]

InitCanon ==
  /\ pc = "canonical"
  /\ policy \in {"A", "B"}
  /\ url_in \in { << u >> : u \in CanonInputs }
  /\ url_out = << >>
  /\ DedupeIdle /\ MatcherIdle /\ FuzzyIdle /\ FeedIdle /\ RunIdle

\* canonical_url(url) is called and returns
CanonicalizeOne ==
  /\ pc = "canonical"
  /\ url_out = << >>
  /\ url_out' = << CanonOf[url_in[1]] >>
  /\ UNCHANGED << pc, policy, url_in, dedupeVars, matcherVars, fuzzyVars,
                  feedVars, runVars >>

\* canonical_url is called on the string it returned
CanonicalizeAgain ==
  /\ pc = "canonical"
  /\ url_out # << >>
  /\ pc' = "canonical_again"
  /\ url_in' = url_out
  /\ url_out' = << canonical_url(url_out[1]) >>
  /\ UNCHANGED << policy, dedupeVars, matcherVars, fuzzyVars, feedVars,
                  runVars >>

NextCanon == CanonicalizeOne \/ CanonicalizeAgain

SpecCanon == InitCanon /\ [][NextCanon]_vars

\* canonical_url has returned
Returns == url_out # << >>

\* urlsplit(url.strip()) returns for the input
InputParses == urlsplit(Strip(url_in[1])).ok

\* C12: canonical_url never raises: for every input string it returns a
\* string; the empty string for the empty string, and the input itself, white
\* space and all, when urlsplit raises on it.
C12_NeverRaises ==
  Returns =>
    /\ url_out[1] # Raised
    /\ url_in[1] = "" => url_out[1] = ""
    /\ (url_in[1] # "" /\ ~InputParses) => url_out[1] = url_in[1]

\* a URL with an unmatched "[" in its host, between blanks: returned as it is
C12_Witness ==
  /\ Returns
  /\ url_in[1] = " http://[::1/a/?id=1#top "
  /\ ~InputParses
  /\ url_out[1] = url_in[1]

\* C24: canonical_url is idempotent: called on a string it returned, it
\* returns that string.
C24_Idempotent == pc = "canonical_again" => url_out = url_in

\* the parts of the input as urlsplit gives them, and of the string returned
SplitIn == urlsplit(Strip(url_in[1]))

SplitOut == urlsplit(url_out[1])

\* the key is one of id, p, story, article
KeptKey(kv) == kv[1] \in {"id", "p", "story", "article"}

\* the key begins, whatever its case, with a tracking prefix
TrackingKey(kv) ==
  \E p \in {"utm_", "gclid", "gclsrc", "fbclid", "at_", "ns_", "ito", "cmp",
            "icid", "ref"} : StartsWith(Lower(kv[1]), p)

\* C20: for a non-empty input that urlsplit accepts, the string canonical_url
\* returns has no fragment, its query holds the parameters of the input whose
\* key is one of id, p, story, article, all of them, in their original order
\* and none with a tracking key, and its path does not end in "/" unless it
\* is the root path "/".
C20_CanonicalShape ==
  (Returns /\ url_in[1] # "" /\ InputParses) =>
    /\ Find(url_out[1], "#") = 0
    /\ SplitOut.fragment = ""
    /\ parse_qsl(SplitOut.query) = SelectSeq(parse_qsl(SplitIn.query), KeptKey)
    /\ \A i \in 1..Len(parse_qsl(SplitOut.query)) :
         /\ KeptKey(parse_qsl(SplitOut.query)[i])
         /\ ~TrackingKey(parse_qsl(SplitOut.query)[i])
    /\ SplitOut.path = "/" \/ ~EndsWith(SplitOut.path, "/")

\* story, article, p and id among x and y: they are what is left of the
\* query, in the order they came in
C20_Witness ==
  /\ Returns
  /\ url_in[1] = "https://example.com/a?x=3&story=s&y=4&article=a&p=1&id=2"
  /\ url_out[1] = "https://example.com/a?story=s&article=a&p=1&id=2"
  /\ InputParses
  /\ Len(parse_qsl(SplitIn.query)) > Len(parse_qsl(SplitOut.query))

(***************************************************************************)
(* find_matching_keywords (reform_mps.py) called again and again, as       *)
(* fetch_feed does for the entries of the feeds: on the titles and         *)
(* summaries of Texts, the URLs of MatcherUrls, and with every text of     *)
(* ArticleTexts as what the network returns for a URL not fetched before   *)
(* ("" when the request fails).  The text analysis is tabulated per title  *)
(* and summary, per article text and per URL.                              *)
(***************************************************************************)
Tier1Of == [ e \in Texts \cup FeedTexts |-> Tier1(Combined(e.title, e.summary)) ]

SurnameRuleOf == [ e \in Texts \cup FeedTexts |-> SurnameRule(Lower(e.title), Lower(e.summary)) ]

\* contains_word(summary_l, full_name) for the rule of the entry
SummaryHasFullName ==
  [ e \in Texts \cup FeedTexts |-> /\ SurnameRuleOf[e] # None
                    /\ contains_word(Lower(e.summary), SurnameRuleOf[e]) ]

HasBodyTriggerOf == [ e \in Texts \cup FeedTexts |-> HasBodyTrigger(Combined(e.title, e.summary)) ]

FullNameSatisfiedOf ==
  [ t \in ArticleTexts |->
      [ full \in { REQUIRE_FULL_IF_TITLE_OR_SUMMARY_CONTAINS[i][2] :
                     i \in 1..Len(REQUIRE_FULL_IF_TITLE_OR_SUMMARY_CONTAINS) } |->
          _full_name_satisfied(t, full) ] ]

BodyMatchOf == [ t \in ArticleTexts |-> _body_matches_targets(t) ]

MatcherDomainOf == [ u \in MatcherUrls |-> url_domain(u) ]

\* What a call returns and does: (ok, hit), BODY_FETCH_BUDGET after it, and
\* whether it called fetch_article_text.
\* what a call leaves: its return value, BODY_FETCH_BUDGET, whether it called
\* fetch_article_text and how many times
Returned(ok, hit, budget, fetched) ==
  [ ok |-> ok, hit |-> IF ok THEN hit ELSE None, budget |-> budget,
    fetched |-> fetched, fetches |-> IF fetched THEN 1 ELSE 0 ]

\* tier 3 entered after tier 2 has run: the calls of fetch_article_text add up
AfterTier2(r2, r3) ==
  [ r3 EXCEPT !.fetched = r2.fetched \/ r3.fetched,
              !.fetches = r2.fetches + r3.fetches ]

\* tier 2 that fetches the body at budget zero too
FMK_Tier2_fetch_at_zero(e, budget, article_text) ==
  IF SummaryHasFullName[e]
  THEN Returned(TRUE, SurnameRuleOf[e], budget, FALSE)
  ELSE Returned(FullNameSatisfiedOf[article_text][SurnameRuleOf[e]],
                SurnameRuleOf[e], IF budget > 0 THEN budget - 1 ELSE budget,
                TRUE)

\* 2) surname -> full-name rule; SurnameRuleOf[e] is the rule that applies
FMK_Tier2(e, budget, article_text) ==
  IF SummaryHasFullName[e]
  THEN Returned(TRUE, SurnameRuleOf[e], budget, FALSE)
  ELSE IF budget > 0
  THEN Returned(FullNameSatisfiedOf[article_text][SurnameRuleOf[e]],
                SurnameRuleOf[e], budget - 1, TRUE)
  ELSE Returned(FALSE, None, budget, FALSE)

\* the BBC boost for every domain
IsBBC_any_domain(domain) == TRUE

IsBBC(domain) == EndsWith(domain, "bbc.co.uk") \/ EndsWith(domain, "bbc.com")

\* tier 3 with "BODY_FETCH_BUDGET -= 1" outside "if BODY_FETCH_BUDGET > 0"
FMK_Tier3_unguarded_decrement(e, url, budget, article_text) ==
  IF HasBodyTriggerOf[e] /\ (budget > 0 \/ IsBBC(MatcherDomainOf[url]))
  THEN Returned(BodyMatchOf[article_text].ok, BodyMatchOf[article_text].hit,
                budget - 1, TRUE)
  ELSE Returned(FALSE, None, budget, FALSE)

\* 3) body-trigger fallback, with the BBC boost
FMK_Tier3(e, url, budget, article_text) ==
  IF HasBodyTriggerOf[e] /\ (budget > 0 \/ IsBBC(MatcherDomainOf[url]))
  THEN Returned(BodyMatchOf[article_text].ok, BodyMatchOf[article_text].hit,
                IF budget > 0 THEN budget - 1 ELSE budget, TRUE)
  ELSE Returned(FALSE, None, budget, FALSE)

\* without "return False, None" at the end of tier 2: a surname rule that is
\* not satisfied falls through to tier 3
find_matching_keywords_falls_through(e, url, budget, article_text) ==
  IF Tier1Of[e] # None THEN Returned(TRUE, Tier1Of[e], budget, FALSE)
  ELSE IF SurnameRuleOf[e] # None /\ FMK_Tier2(e, budget, article_text).ok
  THEN FMK_Tier2(e, budget, article_text)
  ELSE IF SurnameRuleOf[e] # None
  THEN AfterTier2(FMK_Tier2(e, budget, article_text),
                  FMK_Tier3(e, url, FMK_Tier2(e, budget, article_text).budget,
                            article_text))
  ELSE FMK_Tier3(e, url, budget, article_text)

\* find_matching_keywords(title, summary, url) with BODY_FETCH_BUDGET = budget,
\* article_text being what fetch_article_text(url) returns if it is called
find_matching_keywords(e, url, budget, article_text) ==
  IF Tier1Of[e] # None THEN Returned(TRUE, Tier1Of[e], budget, FALSE)
  ELSE IF SurnameRuleOf[e] # None THEN FMK_Tier2(e, budget, article_text)
  ELSE FMK_Tier3(e, url, budget, article_text)

\* fetch_article_text(url) under lru_cache: the cached text of a URL fetched
\* before, "" for an empty URL, else what the network returns now
fetch_article_text(url, network) ==
  IF url \in DOMAIN article_cache THEN article_cache[url]
  ELSE IF url = "" THEN "" ELSE network

CachePut(cache, url, text) ==
  [ u \in DOMAIN cache \cup {url} |-> IF u = url THEN text ELSE cache[u] ]

\* fetch_article_text is called without charge to the budget up to this many
\* times
MaxUnbudgetedFetches == 2

InitMatcher ==
  /\ pc = "matching"
  /\ policy = "B"
  /\ MatcherIdle
  /\ DedupeIdle /\ UrlIdle /\ FuzzyIdle /\ FeedIdle /\ RunIdle

\* a fetch that returned no text gives its budget unit back
MatcherApply_refund(e, url, text, r) ==
  /\ fetch_calls + r.fetches <= BudgetAtStart + MaxUnbudgetedFetches
  /\ BODY_FETCH_BUDGET' =
       IF r.fetched /\ text = "" THEN BODY_FETCH_BUDGET ELSE r.budget
  /\ fetch_calls' = fetch_calls + r.fetches
  /\ article_cache' =
       IF r.fetched THEN CachePut(article_cache, url, text) ELSE article_cache
  /\ call' = << [ e |-> e, url |-> url, before |-> BODY_FETCH_BUDGET,
                 ok |-> r.ok, hit |-> r.hit, fetched |-> r.fetched,
                 text |-> IF r.fetched THEN text ELSE None ] >>

MatcherApply(e, url, text, r) ==
  /\ fetch_calls + r.fetches <= BudgetAtStart + MaxUnbudgetedFetches
  /\ BODY_FETCH_BUDGET' = r.budget
  /\ fetch_calls' = fetch_calls + r.fetches
  /\ article_cache' =
       IF r.fetched THEN CachePut(article_cache, url, text) ELSE article_cache
  /\ call' = << [ e |-> e, url |-> url, before |-> BODY_FETCH_BUDGET,
                 ok |-> r.ok, hit |-> r.hit, fetched |-> r.fetched,
                 text |-> IF r.fetched THEN text ELSE None ] >>

\* one call of find_matching_keywords
FindMatchingKeywords ==
  /\ pc = "matching"
  /\ \E e \in Texts, url \in MatcherUrls, network \in ArticleTexts :
       MatcherApply(e, url, fetch_article_text(url, network),
                    find_matching_keywords(e, url, BODY_FETCH_BUDGET,
                                           fetch_article_text(url, network)))
  /\ UNCHANGED << pc, policy, dedupeVars, urlVars, fuzzyVars, runVars, feedVars >>

NextMatcher == FindMatchingKeywords

SpecMatcher == InitMatcher /\ [][NextMatcher]_vars

\* the last call of find_matching_keywords, once there was one
Called == call # << >>

LastCall == call[1]

\* the last call reached tier 2 or tier 3 in need of the article body
CallWantsBody ==
  /\ Called
  /\ Tier1Of[LastCall.e] = None
  /\ \/ SurnameRuleOf[LastCall.e] # None /\ ~SummaryHasFullName[LastCall.e]
     \/ SurnameRuleOf[LastCall.e] = None /\ HasBodyTriggerOf[LastCall.e]

\* C3: the fetch budget is never negative, whatever calls of
\* find_matching_keywords were made and whatever the fetches returned.
C3_BudgetNeverNegative == BODY_FETCH_BUDGET >= 0

\* a call that needed the body was made with the budget at zero, on a BBC URL
\* (the body is fetched all the same) and the budget is still zero
C3_Witness ==
  /\ BODY_FETCH_BUDGET = 0
  /\ CallWantsBody /\ LastCall.before = 0
  /\ IsBBC(MatcherDomainOf[LastCall.url]) /\ LastCall.fetched

CallIs(title, summary) ==
  Called /\ LastCall.e = [ title |-> title, summary |-> summary ]

\* C5 as claimed: title "Reform surges", a summary that is the bare surname
\* "Farage", fetch budget zero: find_matching_keywords returns (False, None).
C5_ReformSurgesRejected ==
  (CallIs("Reform surges", "Farage") /\ LastCall.before = 0) =>
    (~LastCall.ok /\ LastCall.hit = None)

\* C5 amended: with title "Reform surges" and summary "Farage" the call
\* returns (True, "reform uk") at every budget, without a fetch: tier 1 matches
\* the keyword "reform uk" fuzzily ("reform su" scores 88.9 >= 88) before the
\* surname rule is reached.  With a title that no keyword matches ("Party
\* surges"), summary "Farage" and budget zero the call returns (False, None)
\* and fetches nothing.
C5_ReformSurgesMatchesFuzzily ==
  /\ CallIs("Reform surges", "Farage") =>
       /\ LastCall.ok /\ LastCall.hit = "reform uk"
       /\ ~LastCall.fetched /\ BODY_FETCH_BUDGET = LastCall.before
  /\ (CallIs("Party surges", "Farage") /\ LastCall.before = 0) =>
       /\ ~LastCall.ok /\ LastCall.hit = None
       /\ ~LastCall.fetched /\ BODY_FETCH_BUDGET = 0

\* the call of the claim, made with the budget at zero
C5_Witness ==
  /\ CallIs("Reform surges", "Farage") /\ LastCall.before = 0
  /\ LastCall.ok /\ LastCall.hit = "reform uk"

\* the decision title and summary allow without the body: a tier-1 keyword,
\* or the full name of the surname rule in the summary
TitleSummaryDecides(e) == Tier1Of[e] # None \/ SummaryHasFullName[e]

\* the URL of the last call is on a domain ending in bbc.co.uk or bbc.com
CallOnBBC ==
  \/ EndsWith(MatcherDomainOf[LastCall.url], "bbc.co.uk")
  \/ EndsWith(MatcherDomainOf[LastCall.url], "bbc.com")

\* the last call reached tier 3 with a body trigger in title or summary
CallInTier3 ==
  /\ Tier1Of[LastCall.e] = None /\ SurnameRuleOf[LastCall.e] = None
  /\ HasBodyTriggerOf[LastCall.e]

CallInTier2 ==
  /\ Called
  /\ Tier1Of[LastCall.e] = None
  /\ SurnameRuleOf[LastCall.e] # None
  /\ ~SummaryHasFullName[LastCall.e]

\* one call: the step from before it to after it
OneCall == Called' /\ call' # call

\* C23: each call of find_matching_keywords calls fetch_article_text at most
\* once and leaves BODY_FETCH_BUDGET as it was or one lower, whichever tiers
\* the title and the summary trigger; the budget is lowered only by a call
\* that fetched, and it never rises from one step of a run to the next.
C23_OneFetchOneUnit ==
  [][ /\ BODY_FETCH_BUDGET' <= BODY_FETCH_BUDGET
      /\ BODY_FETCH_BUDGET' >= BODY_FETCH_BUDGET - 1
      /\ fetch_calls' >= fetch_calls
      /\ fetch_calls' <= fetch_calls + 1
      /\ BODY_FETCH_BUDGET' < BODY_FETCH_BUDGET => fetch_calls' = fetch_calls + 1
      /\ OneCall =>
           /\ call'[1].before = BODY_FETCH_BUDGET
           /\ call'[1].fetched <=> fetch_calls' = fetch_calls + 1 ]_vars

\* "Yusuf quits" or "Party surges" with the summary "Farage": the surname
\* rule and a body trigger both apply; with two units or more left the call
\* fetches, the body does not satisfy the full name though tier 3 would match
\* it, and one unit is gone
C23_Witness ==
  /\ Called
  /\ Tier1Of[LastCall.e] = None
  /\ SurnameRuleOf[LastCall.e] # None
  /\ HasBodyTriggerOf[LastCall.e]
  /\ LastCall.fetched /\ ~LastCall.ok
  /\ BodyMatchOf[LastCall.text].ok
  /\ LastCall.before >= 2
  /\ BODY_FETCH_BUDGET = LastCall.before - 1
  /\ fetch_calls >= 2

\* C14: no keyword matches, a rule surname is a word of title or summary and
\* the full name is not in the summary: with the budget at zero the call
\* returns (False, None) without a fetch, on every domain; with budget left it
\* fetches once and returns (True, full name) if the body satisfies the
\* full-name rule and (False, None) if not, whatever tier 3 would find in the
\* title, the summary or the body.
C14_SurnameAloneRejected ==
  CallInTier2 =>
    IF LastCall.before = 0
    THEN /\ ~LastCall.fetched /\ BODY_FETCH_BUDGET = 0
         /\ ~LastCall.ok /\ LastCall.hit = None
    ELSE /\ LastCall.fetched /\ BODY_FETCH_BUDGET = LastCall.before - 1
         /\ LastCall.ok =
              FullNameSatisfiedOf[LastCall.text][SurnameRuleOf[LastCall.e]]
         /\ LastCall.hit =
              IF LastCall.ok THEN SurnameRuleOf[LastCall.e] ELSE None

\* "Yusuf quits" with budget left: the body fetched names Richard Tice, which
\* tier 3 would accept, and not Zia Yusuf: rejected
C14_Witness ==
  /\ CallInTier2 /\ CallIs("Yusuf quits", "")
  /\ LastCall.before > 0 /\ LastCall.fetched
  /\ LastCall.text = "richard tice spoke"
  /\ BodyMatchOf[LastCall.text].ok
  /\ ~LastCall.ok /\ LastCall.hit = None

\* C18: a body fetch that returns no text is no evidence: the call returns
\* (False, None), and the budget unit taken for the fetch is not given back (a
\* fetch made at budget zero for a BBC page took none).
C18_FailedFetchNoEvidence ==
  (Called /\ LastCall.fetched /\ LastCall.text = "") =>
    /\ ~LastCall.ok /\ LastCall.hit = None
    /\ BODY_FETCH_BUDGET =
         IF LastCall.before > 0 THEN LastCall.before - 1 ELSE 0

\* the fetch of a page failed in tier 2: no match, one unit of budget gone
C18_Witness ==
  /\ Called /\ LastCall.fetched /\ LastCall.text = ""
  /\ LastCall.url # "" /\ CallInTier2
  /\ LastCall.before > 0 /\ BODY_FETCH_BUDGET = LastCall.before - 1
  /\ ~LastCall.ok

\* the keywords, by their place in KEYWORDS, that are a word sequence of the
\* combined text or score FUZZY_THRESHOLD against it
KeywordHits(e) ==
  { i \in 1..Len(KEYWORDS) :
      \/ SearchWord(Combined(e.title, e.summary), Lower(KEYWORDS[i]))
      \/ 100 * partial_ratio(Lower(KEYWORDS[i]), Combined(e.title, e.summary))[1]
           >= FUZZY_THRESHOLD_B
                * partial_ratio(Lower(KEYWORDS[i]), Combined(e.title, e.summary))[2] }

KeywordHitsOf == [ e \in Texts |-> KeywordHits(e) ]

\* C19: when a keyword of KEYWORDS matches the combined title and summary,
\* exactly or fuzzily, find_matching_keywords returns (True, kw) for the
\* first such keyword in the order of the list, fetches no body and leaves
\* BODY_FETCH_BUDGET as it was.
C19_FirstKeywordWins ==
  (Called /\ KeywordHitsOf[LastCall.e] # {}) =>
    /\ LastCall.ok
    /\ \E i \in KeywordHitsOf[LastCall.e] :
         /\ LastCall.hit = KEYWORDS[i]
         /\ \A j \in KeywordHitsOf[LastCall.e] : i <= j
    /\ ~LastCall.fetched
    /\ BODY_FETCH_BUDGET = LastCall.before

\* "Reform surges" with the summary "Nigel Farage": "reform uk" matches
\* fuzzily only and "nigel farage", later in the list, exactly; the hit is
\* "reform uk", with a budget that would have allowed a fetch
C19_Witness ==
  /\ CallIs("Reform surges", "Nigel Farage")
  /\ KeywordHitsOf[LastCall.e] = {1, 2}
  /\ ~SearchWord(Combined(LastCall.e.title, LastCall.e.summary), "reform uk")
  /\ LastCall.hit = "reform uk"
  /\ LastCall.before > 0 /\ BODY_FETCH_BUDGET = LastCall.before
  /\ ~LastCall.fetched

(***************************************************************************)
(* The fuzzy test of the two matchers, one alias (Policy A) or keyword     *)
(* (Policy B) against the combined text of one entry.                      *)
(***************************************************************************)
FuzzyTexts ==
  Texts \cup { [ title |-> "John Davies speaks", summary |-> "" ],
               [ title |-> "Reformulated plans", summary |-> "" ] }

Aliases ==
  UNION { { LEADER_ALIASES[i].aliases[j] : j \in 1..Len(LEADER_ALIASES[i].aliases) } :
            i \in 1..Len(LEADER_ALIASES) }

Keywords == { KEYWORDS[i] : i \in 1..Len(KEYWORDS) }

\* the text the policy matches on
TextA(e) == normalize_text(e.title \o "\n" \o e.summary)

TextB(e) == Combined(e.title, e.summary)

FuzzyOfA ==
  [ a \in Aliases, e \in FuzzyTexts |->
      [ score |-> partial_ratio(normalize_text(a), TextA(e)),
        exact |-> SearchWord(TextA(e), normalize_text(a)),
        match |-> AliasMatches(a, TextA(e)) ] ]

FuzzyOfB ==
  [ kw \in Keywords, e \in FuzzyTexts |->
      [ score |-> partial_ratio(Lower(kw), TextB(e)),
        exact |-> SearchWord(TextB(e), Lower(kw)),
        match |-> KeywordMatches(kw, TextB(e)) ] ]

InitFuzzy ==
  /\ pc = "fuzzy"
  /\ \/ policy = "A" /\ fuzzy_in \in { << [ needle |-> a, e |-> e ] >> :
                                         a \in Aliases, e \in FuzzyTexts }
     \/ policy = "B" /\ fuzzy_in \in { << [ needle |-> kw, e |-> e ] >> :
                                         kw \in Keywords, e \in FuzzyTexts }
  /\ fuzzy_out = << >>
  /\ DedupeIdle /\ UrlIdle /\ MatcherIdle /\ FeedIdle /\ RunIdle

\* find_all_hits: the two tests of one alias
FuzzyMatchA ==
  /\ pc = "fuzzy" /\ policy = "A" /\ fuzzy_out = << >>
  /\ fuzzy_out' = << FuzzyOfA[fuzzy_in[1].needle, fuzzy_in[1].e] >>
  /\ UNCHANGED << pc, policy, fuzzy_in, dedupeVars, urlVars, matcherVars,
                  feedVars, runVars >>

\* find_matching_keywords: the two tests of one keyword
FuzzyMatchB ==
  /\ pc = "fuzzy" /\ policy = "B" /\ fuzzy_out = << >>
  /\ fuzzy_out' = << FuzzyOfB[fuzzy_in[1].needle, fuzzy_in[1].e] >>
  /\ UNCHANGED << pc, policy, fuzzy_in, dedupeVars, urlVars, matcherVars,
                  feedVars, runVars >>

NextFuzzy == FuzzyMatchA \/ FuzzyMatchB

SpecFuzzy == InitFuzzy /\ [][NextFuzzy]_vars

Threshold == IF policy = "A" THEN FUZZY_THRESHOLD_A ELSE FUZZY_THRESHOLD_B

\* 100 * score numerator and threshold * denominator of the score computed
ScoreTimes == 100 * fuzzy_out[1].score[1]

Denominator == fuzzy_out[1].score[2]

\* C9: the fuzzy boundary is inclusive in both policies: an alias/keyword
\* whose partial-ratio score against the combined text equals the threshold
\* (80 in Policy A, 88 in Policy B) counts as a match, one whose score is one
\* below the threshold or lower does not; it matches exactly when the score is
\* at least the threshold.
C9_InclusiveBoundary ==
  fuzzy_out # << >> =>
    /\ ScoreTimes = Threshold * Denominator => fuzzy_out[1].match
    /\ ScoreTimes <= (Threshold - 1) * Denominator => ~fuzzy_out[1].match
    /\ fuzzy_out[1].match <=> ScoreTimes >= Threshold * Denominator

\* Policy A, alias "davey" against "john davies speaks": not a word of the
\* text, best alignment "davie" with score exactly 80, a match
C9_Witness ==
  /\ fuzzy_out # << >>
  /\ policy = "A"
  /\ ScoreTimes = FUZZY_THRESHOLD_A * Denominator
  /\ ~fuzzy_out[1].exact
  /\ fuzzy_out[1].match

(***************************************************************************)
(* main of the two scripts: every feed of FEEDS in order, fetch_feed on    *)
(* its entries, then dedupe and the digest.  A feed is known by its        *)
(* position in FEEDS, which stands for its name; it has up to MaxEntries   *)
(* entries, any of FeedEntries; feedparser.parse or the loop over the      *)
(* entries may raise.  The display string "published" of an item is left   *)
(* out.                                                                    *)
(***************************************************************************)
MaxFeeds == 2

MaxEntries == 2

MAX_ITEMS_PER_FEED_A == 300

MAX_ITEMS_PER_FEED_B == 120

\* published_parsed / updated_parsed: << >> when absent, << t >> for the time t
FeedEntries ==
  { [ published_parsed |-> pu[1], updated_parsed |-> pu[2],
      title |-> t.title, summary |-> t.summary, link |-> l ] :
      pu \in { << << >>, << >> >>, << << start_utc >>, << >> >>,
               << << >>, << start_utc >> >>,
               << << end_utc >>, << start_utc >> >>,
               << << start_utc - 1 >>, << >> >> },
      t \in FeedTexts, l \in FeedLinks }

\* struct = e.get("published_parsed") or e.get("updated_parsed")
StructOf(e) ==
  IF e.published_parsed # << >> THEN e.published_parsed ELSE e.updated_parsed

\* datetime.utcfromtimestamp(calendar.timegm(struct))
UtcOf(struct) == struct[1]

\* title_raw and summary_raw
RawText(e) == [ title |-> norm(e.title), summary |-> norm(e.summary) ]

HitsOf == [ t \in FeedTexts |-> find_all_hits(t.title, t.summary) ]

StrippedA ==
  [ s \in { t.title : t \in FeedTexts } \cup { t.summary : t \in FeedTexts } |->
      strip_html_A(s) ]

StrippedB ==
  [ s \in { t.title : t \in FeedTexts } \cup { t.summary : t \in FeedTexts } |->
      strip_html_B(s) ]

GoogleTargetOf == [ l \in FeedLinks |-> extract_google_target(l) ]

ItemA(name, e, hits) ==
  [ source |-> name, title |-> StrippedA[RawText(e).title],
    summary |-> Take(StrippedA[RawText(e).summary], SUMMARY_CHARS),
    link |-> norm(e.link), hits |-> hits ]

ItemB(name, e, hit) ==
  [ source |-> name, title |-> StrippedB[RawText(e).title],
    summary |-> Take(StrippedB[RawText(e).summary], SUMMARY_CHARS),
    link |-> GoogleTargetOf[norm(e.link)], dt_sort |-> UtcOf(StructOf(e)),
    hit |-> hit ]

\* the loop body without "if not struct: continue"
fetch_feed_entry_A_no_struct_check(name, e) ==
  IF StructOf(e) # << >> /\ ~InWindowA(UtcOf(StructOf(e))) THEN << >>
  ELSE IF HitsOf[RawText(e)] = << >> THEN << >>
  ELSE << ItemA(name, e, HitsOf[RawText(e)]) >>

\* partyleaders_mentions.py, fetch_feed: what one entry appends to out
fetch_feed_entry_A(name, e) ==
  IF StructOf(e) = << >> THEN << >>
  ELSE IF ~InWindowA(UtcOf(StructOf(e))) THEN << >>
  ELSE IF HitsOf[RawText(e)] = << >> THEN << >>
  ELSE << ItemA(name, e, HitsOf[RawText(e)]) >>

\* reform_mps.py, fetch_feed: the entry reaches find_matching_keywords
ReachesMatcher(e) == StructOf(e) # << >> /\ InWindowB(UtcOf(StructOf(e)))

\* the loop body without "if not ok: continue"
fetch_feed_entry_B_no_ok_check(name, e, r) == << ItemB(name, e, r.hit) >>

\* reform_mps.py, fetch_feed: what an entry that reached the matcher appends
\* to out, r being what find_matching_keywords returned
fetch_feed_entry_B(name, e, r) ==
  IF ~r.ok THEN << >> ELSE << ItemB(name, e, r.hit) >>

EmptyDedupe ==
  [ seen_urls |-> {}, by_domain |-> << >>, global |-> {}, result |-> << >> ]

RECURSIVE DedupeFrom(_, _, _)
DedupeFrom(items, i, st) ==
  IF i > Len(items) THEN st
  ELSE DedupeFrom(items, i + 1,
                  IF policy = "A" THEN dedupe_iter_A(st, items[i]).st
                  ELSE dedupe_iter_B(st, items[i]).st)

\* dedupe(items)
dedupe(items) == DedupeFrom(items, 1, EmptyDedupe).result

\* parsed.entries of the feed being read: any entries when the feeds are not
\* fixed, else the entries fixed for the feed
EntriesToRead ==
  IF parsed = << >> THEN FeedEntries
  ELSE IF entry_ix < Len(parsed[feed_ix].entries)
  THEN { parsed[feed_ix].entries[entry_ix + 1] }
  ELSE {}

\* what urlopen returns for the URL, "" when it fails
ResponsesFor(url) ==
  IF responses = << >> THEN FeedArticleTexts ELSE { responses[url] }

\* fetch_feed is at its end: at any entry when the feeds are not fixed, else
\* after the last entry of the feed, where it returns or raises
FeedEnds(raises) ==
  IF parsed = << >> THEN TRUE
  ELSE /\ entry_ix = Len(parsed[feed_ix].entries)
       /\ parsed[feed_ix].raises = raises

\* main begins: BODY_FETCH_BUDGET = 80 (reform_mps.py), all_items = []
MainBegins ==
  /\ pc = "fetch_feed"
  /\ feed_ix = 1
  /\ entry_ix = 0
  /\ out = << >>
  /\ entry = << >>
  /\ failed = {}
  /\ all_items = << >>
  /\ BODY_FETCH_BUDGET = BudgetAtStart

Init ==
  /\ pc = "fetch_feed"
  /\ policy \in {"A", "B"}
  /\ feed_ix = 1
  /\ entry_ix = 0
  /\ out = << >>
  /\ entry = << >>
  /\ failed = {}
  /\ DedupeIdle /\ UrlIdle /\ MatcherIdle /\ FuzzyIdle /\ RunIdle

\* partyleaders_mentions.py: the next entry of the feed
ReadEntryA ==
  /\ pc = "fetch_feed" /\ policy = "A"
  /\ entry_ix < MaxEntries /\ entry_ix < MAX_ITEMS_PER_FEED_A
  /\ \E e \in EntriesToRead :
       /\ entry' = << e >>
       /\ out' = out \o fetch_feed_entry_A(feed_ix, e)
  /\ entry_ix' = entry_ix + 1
  /\ UNCHANGED << pc, policy, feed_ix, failed, dedupeVars, urlVars,
                  matcherVars, fuzzyVars, runVars >>

\* the entry reaches find_matching_keywords, which returns r
ReadEntryBApply(e, link, text, r) ==
  /\ MatcherApply(RawText(e), link, text, r)
  /\ entry' = << e >>
  /\ out' = out \o fetch_feed_entry_B(feed_ix, e, r)

ReadEntryBFetching(e, link, text) ==
  ReadEntryBApply(e, link, text,
    find_matching_keywords(RawText(e), link, BODY_FETCH_BUDGET, text))

\* reform_mps.py: the next entry of the feed
ReadEntryB ==
  /\ pc = "fetch_feed" /\ policy = "B"
  /\ entry_ix < MaxEntries /\ entry_ix < MAX_ITEMS_PER_FEED_B
  /\ \E e \in EntriesToRead :
       IF ReachesMatcher(e)
       THEN \E network \in ResponsesFor(GoogleTargetOf[norm(e.link)]) :
              ReadEntryBFetching(e, GoogleTargetOf[norm(e.link)],
                fetch_article_text(GoogleTargetOf[norm(e.link)], network))
       ELSE /\ entry' = << e >>
            /\ out' = out
            /\ UNCHANGED matcherVars
  /\ entry_ix' = entry_ix + 1
  /\ UNCHANGED << pc, policy, feed_ix, failed, dedupeVars, urlVars, fuzzyVars, runVars >>

\* main goes on to the next feed, or to dedupe after the last one
NextFeed ==
  /\ IF feed_ix < MaxFeeds
     THEN feed_ix' = feed_ix + 1 /\ pc' = pc
     ELSE feed_ix' = feed_ix /\ pc' = "dedupe_all"
  /\ entry_ix' = 0
  /\ out' = << >>
  /\ entry' = << >>

\* fetch_feed returns out: all_items.extend(...)
FeedReturns ==
  /\ pc = "fetch_feed"
  /\ FeedEnds(FALSE)
  /\ all_items' = all_items \o out
  /\ NextFeed
  /\ UNCHANGED << policy, failed, seen_urls, seen_titles_by_domain,
                  seen_titles_global, result, locals, urlVars, matcherVars,
                  fuzzyVars, runVars >>

\* the exception leaves main
FeedRaises_aborts ==
  /\ pc = "fetch_feed"
  /\ pc' = "aborted"
  /\ failed' = failed \cup {feed_ix}
  /\ UNCHANGED << policy, feed_ix, entry_ix, out, entry, dedupeVars, urlVars,
                  matcherVars, fuzzyVars, runVars >>

\* fetch_feed raises, at feedparser.parse or at an entry: except Exception
FeedRaises ==
  /\ pc = "fetch_feed"
  /\ FeedEnds(TRUE)
  /\ failed' = failed \cup {feed_ix}
  /\ NextFeed
  /\ UNCHANGED << policy, dedupeVars, urlVars, matcherVars, fuzzyVars, runVars >>

\* all_items = dedupe(all_items)[:MAX_RESULTS_PER_DAY]; result is the list
\* after it, all_items stays the list before it
DedupeAll ==
  /\ pc = "dedupe_all"
  /\ result' = Take(dedupe(all_items),
                    IF policy = "A" THEN MAX_RESULTS_PER_DAY_A
                    ELSE MAX_RESULTS_PER_DAY_B)
  /\ pc' = "make_pdf"
  /\ UNCHANGED << policy, all_items, seen_urls, seen_titles_by_domain,
                  seen_titles_global, locals, urlVars, matcherVars, fuzzyVars, runVars,
                  feedVars >>

\* make_pdf(all_items, ...) and the "Saved n matches" line
MakePdf ==
  /\ pc = "make_pdf"
  /\ pc' = "done"
  /\ digests' = Append(digests, result)
  /\ UNCHANGED << policy, dedupeVars, urlVars, matcherVars, fuzzyVars,
                  feedVars, run, parsed, responses,
                  invocations >>

Next ==
  \/ ReadEntryA
  \/ ReadEntryB
  \/ FeedReturns
  \/ FeedRaises
  \/ DedupeAll
  \/ MakePdf

Spec == Init /\ [][Next]_vars

\* main is one sequential thread: it takes its next step
FairSpec == Spec /\ WF_vars(Next)

(***************************************************************************)
(* main called twice on the same feeds and the same article pages: parsed  *)
(* and responses are fixed at the start and both runs read them.  The      *)
(* second call is made in the same process, so the lru_cache of            *)
(* fetch_article_text is the one the first run filled.                     *)
(***************************************************************************)
MaxRuns == 2

SeqsUpTo(S, n) == UNION { [ 1..k -> S ] : k \in 0..n }

\* in-window entries: one that matches on its title, one with a body trigger
TwiceEntries ==
  { e \in FeedEntries :
      /\ e.published_parsed = << start_utc >> /\ e.updated_parsed = << >>
      /\ e.title \in { "<b>Nigel Farage</b>  speaks", "Tice speaks" } }

FetchedUrls == { GoogleTargetOf[l] : l \in FeedLinks }

InitTwice ==
  /\ policy \in {"A", "B"}
  /\ run = 1
  /\ parsed \in [ 1..MaxFeeds ->
                    [ entries : SeqsUpTo(TwiceEntries, MaxEntries),
                      raises : BOOLEAN ] ]
  /\ responses \in IF policy = "B" THEN [ FetchedUrls -> FeedArticleTexts ]
                    ELSE [ FetchedUrls -> {""} ]
  /\ digests = << >>
  /\ invocations = << >>
  /\ MainBegins
  /\ seen_urls = {} /\ seen_titles_by_domain = << >>
  /\ seen_titles_global = {} /\ result = << >> /\ locals = << >>
  /\ article_cache = << >> /\ fetch_calls = 0 /\ call = << >>
  /\ UrlIdle /\ FuzzyIdle

\* main called again without "BODY_FETCH_BUDGET = 80"
MainAgain_keeps_budget ==
  /\ pc = "done" /\ run < MaxRuns
  /\ run' = run + 1
  /\ pc' = "fetch_feed"
  /\ feed_ix' = 1 /\ entry_ix' = 0 /\ out' = << >> /\ entry' = << >>
  /\ failed' = {}
  /\ all_items' = << >> /\ result' = << >>
  /\ call' = << >>
  /\ UNCHANGED << policy, seen_urls, seen_titles_by_domain, seen_titles_global,
                  locals, urlVars, BODY_FETCH_BUDGET, article_cache,
                  fetch_calls, fuzzyVars, parsed, responses, digests,
                  invocations >>

\* main is called again in the same process: its locals are new, the global
\* BODY_FETCH_BUDGET is set to 80 again (reform_mps.py), the lru_cache of
\* fetch_article_text stays
MainAgain ==
  /\ pc = "done" /\ run < MaxRuns
  /\ run' = run + 1
  /\ pc' = "fetch_feed"
  /\ feed_ix' = 1 /\ entry_ix' = 0 /\ out' = << >> /\ entry' = << >>
  /\ failed' = {}
  /\ all_items' = << >> /\ result' = << >>
  /\ call' = << >>
  /\ BODY_FETCH_BUDGET' = BudgetAtStart
  /\ UNCHANGED << policy, seen_urls, seen_titles_by_domain, seen_titles_global,
                  locals, urlVars, article_cache, fetch_calls, fuzzyVars,
                  parsed, responses, digests,
                  invocations >>

NextTwice == Next \/ MainAgain

SpecTwice == InitTwice /\ [][NextTwice]_vars

\* C11: two runs of the full pipeline on the same feed contents and the same
\* article responses give the same digest, item for item, and the second
\* run begins as the first did: the fetch budget is 80 again and all_items is
\* empty, whatever the first run spent or collected.
C11_RunsAgree ==
  /\ \A i, j \in 1..Len(digests) : digests[i] = digests[j]
  /\ (run > 1 /\ pc = "fetch_feed" /\ feed_ix = 1 /\ entry_ix = 0) =>
       /\ BODY_FETCH_BUDGET = BudgetAtStart
       /\ all_items = << >>

\* Policy B ran twice; the first run spent budget on body fetches, whose pages
\* are still in the cache, and both digests hold an item matched on its body
C11_Witness ==
  /\ policy = "B" /\ run = 2 /\ Len(digests) = 2
  /\ article_cache # << >>
  /\ BODY_FETCH_BUDGET < BudgetAtStart
  /\ \E k \in 1..Len(digests[2]) : digests[2][k].hit = "richard tice"
  /\ \E f \in 1..MaxFeeds : parsed[f].raises

\* the step read an entry of the feed
ReadsEntry == entry_ix' = entry_ix + 1

NoTimestamp(e) == e.published_parsed = << >> /\ e.updated_parsed = << >>

\* the matcher finds something in the entry: find_all_hits a non-empty list,
\* tier 1 of find_matching_keywords a keyword
TextMatches(e) ==
  IF policy = "A" THEN HitsOf[RawText(e)] # << >>
  ELSE Tier1Of[RawText(e)] # None

\* C7: fetch_feed (both policies) never outputs an item for an entry that has
\* neither a published nor an updated parsed timestamp, whatever its title,
\* summary or link: reading such an entry leaves out as it was.
C7_NoTimestampNoItem ==
  [][ (ReadsEntry /\ NoTimestamp(entry'[1])) => out' = out ]_vars

\* the first entry of a feed has no timestamp and a text that matches:
\* nothing is output
C7_Witness ==
  /\ pc = "fetch_feed" /\ entry_ix = 1
  /\ entry # << >> /\ NoTimestamp(entry[1]) /\ TextMatches(entry[1])
  /\ out = << >>

ItemsOut ==
  { out[i] : i \in 1..Len(out) } \cup { all_items[i] : i \in 1..Len(all_items) }
    \cup { result[i] : i \in 1..Len(result) }

HasHit(item) == IF policy = "A" THEN item.hits # << >> ELSE item.hit # None

\* the entry read reached the matcher and the matcher returned nothing
ReadsUnmatched ==
  /\ ReadsEntry
  /\ StructOf(entry'[1]) # << >>
  /\ IF policy = "A"
     THEN /\ InWindowA(UtcOf(StructOf(entry'[1])))
          /\ HitsOf[RawText(entry'[1])] = << >>
     ELSE /\ InWindowB(UtcOf(StructOf(entry'[1])))
          /\ ~call'[1].ok

\* C8: every item that leaves the matcher carries at least one matched
\* entity: the items of Policy A have a non-empty list of hits, those of
\* Policy B a hit that is not None, and an entry for which find_all_hits
\* returned the empty list, or find_matching_keywords no match, adds no item.
C8_EveryItemHasAHit ==
  /\ [](\A item \in ItemsOut : HasHit(item))
  /\ [][ ReadsUnmatched => out' = out ]_vars

\* the second entry of a feed is in the window and matches nothing: out keeps
\* the item of the first entry only
C8_Witness ==
  /\ pc = "fetch_feed" /\ entry_ix = 2 /\ Len(out) = 1
  /\ HasHit(out[1])
  /\ StructOf(entry[1]) # << >> /\ InWindowB(UtcOf(StructOf(entry[1])))
  /\ IF policy = "A" THEN HitsOf[RawText(entry[1])] = << >>
     ELSE call # << >> /\ call[1].e = RawText(entry[1]) /\ ~call[1].ok

\* the time of the entry the step reads
StampRead == UtcOf(StructOf(entry'[1]))

\* the matcher accepts the entry the step reads
MatchRead ==
  IF policy = "A" THEN HitsOf[RawText(entry'[1])] # << >>
  ELSE call' # << >> /\ call'[1].e = RawText(entry'[1]) /\ call'[1].ok

\* the window as the claim has it: the London date of the time is today
\* (Policy A), the time is in [start_utc, end_utc) (Policy B)
InClaimedWindow(t) ==
  IF policy = "A" THEN (t + LondonOffset) \div 24 = Today
  ELSE start_utc <= t /\ t < end_utc

\* C17: fetch_feed outputs an item only for an entry whose time is in the
\* window: in Policy B the items carry that time and it is in
\* [start_utc, end_utc), an entry stamped exactly start_utc that matches is
\* output and one stamped exactly end_utc never is; in Policy A an entry that
\* matches is output exactly when the London date of its time is the target
\* date.
C17_OnlyInWindow ==
  /\ [](policy = "B" =>
          \A item \in ItemsOut :
            start_utc <= item.dt_sort /\ item.dt_sort < end_utc)
  /\ [][ (ReadsEntry /\ StructOf(entry'[1]) # << >>) =>
           /\ out' # out => InClaimedWindow(StampRead)
           /\ (InClaimedWindow(StampRead) /\ MatchRead) =>
                Len(out') = Len(out) + 1
           /\ (policy = "B" /\ StampRead = start_utc /\ MatchRead) =>
                out'[Len(out')].dt_sort = start_utc
           /\ StampRead = end_utc => out' = out ]_vars

\* Policy B: the first entry, stamped exactly start_utc, is output; the second
\* has a text that matches and is stamped exactly end_utc: not output
C17_Witness ==
  /\ policy = "B" /\ pc = "fetch_feed" /\ entry_ix = 2
  /\ Len(out) = 1 /\ out[1].dt_sort = start_utc
  /\ StructOf(entry[1]) = << end_utc >>
  /\ TextMatches(entry[1])

\* the step in which the feed raised
FeedFails == failed' # failed

\* the step in which fetch_feed returned
FeedDone == pc = "fetch_feed" /\ failed' = failed /\ (feed_ix' # feed_ix \/ pc' # pc)

InFeedOrder(items) ==
  \A i, j \in 1..Len(items) : i < j => items[i].source <= items[j].source

\* C10: a feed that raises does not abort the run: it contributes no items
\* (all_items is left as it was and holds no item of a failed feed), main goes
\* on to the next feed or to dedupe, the items of the other feeds are
\* collected in feed order, and the run always reaches dedupe and the
\* rendering, even when every feed fails.
C10_FeedFailureNotFatal ==
  /\ [][ FeedFails => /\ all_items' = all_items
                      /\ pc' \in {"fetch_feed", "dedupe_all"}
                      /\ (pc' = "fetch_feed" => feed_ix' = feed_ix + 1) ]_vars
  /\ [][ FeedDone => all_items' = all_items \o out ]_vars
  /\ [](/\ \A i \in 1..Len(all_items) : all_items[i].source \notin failed
        /\ InFeedOrder(all_items))
  /\ <>(pc = "done")
  /\ [](pc = "done" => (failed = 1..MaxFeeds => result = << >>))

\* the run is over, the first feed raised, and the digest has the items of
\* the second
C10_Witness ==
  /\ pc = "done"
  /\ 1 \in failed
  /\ result # << >>
  /\ \A i \in 1..Len(result) : result[i].source = 2

(***************************************************************************)
(* dedupe(all_items)[:MAX_RESULTS_PER_DAY] on the items of a day with      *)
(* about as many matches as the digest takes, and more: the loop of dedupe *)
(* item by item, then the slice.  all_items is the list given to dedupe,   *)
(* locals has an entry for every item the loop has been through.           *)
(***************************************************************************)
MAX_RESULTS_PER_DAY ==
  IF policy = "A" THEN MAX_RESULTS_PER_DAY_A ELSE MAX_RESULTS_PER_DAY_B

DigestList(n, variant) == [ i \in 1..n |-> DigestItem(i, variant) ]

DigestLengths(max) ==
  { 0, 1, 2, 3, 4, 5, 6, max - 1, max, max + 1, max + Overshoot }

InitDigest ==
  /\ pc = "dedupe_loop"
  /\ policy \in {"A", "B"}
  /\ all_items \in { DigestList(n, v) :
                        n \in DigestLengths(MAX_RESULTS_PER_DAY),
                        v \in DigestVariants }
  /\ seen_urls = {} /\ seen_titles_by_domain = << >>
  /\ seen_titles_global = {} /\ result = << >> /\ locals = << >>
  /\ UrlIdle /\ MatcherIdle /\ FuzzyIdle /\ FeedIdle /\ RunIdle

\* one iteration of "for it in items", r being what it does to the locals
DigestApply(r) ==
  /\ seen_urls' = r.st.seen_urls
  /\ seen_titles_by_domain' = r.st.by_domain
  /\ seen_titles_global' = r.st.global
  /\ result' = r.st.result
  /\ locals' = Append(locals, [ can |-> r.local.can, domain |-> r.local.domain,
                                tfp |-> r.local.tfp, why |-> r.why ])

DigestStepA ==
  /\ pc = "dedupe_loop" /\ policy = "A"
  /\ Len(locals) < Len(all_items)
  /\ DigestApply(dedupe_iter_A(DedupeState, all_items[Len(locals) + 1]))
  /\ UNCHANGED << pc, policy, all_items, urlVars, matcherVars, fuzzyVars,
                  feedVars, runVars >>

DigestStepB ==
  /\ pc = "dedupe_loop" /\ policy = "B"
  /\ Len(locals) < Len(all_items)
  /\ DigestApply(dedupe_iter_B(DedupeState, all_items[Len(locals) + 1]))
  /\ UNCHANGED << pc, policy, all_items, urlVars, matcherVars, fuzzyVars,
                  feedVars, runVars >>

\* dedupe returns result and main gives all of it to make_pdf
DedupeReturns_no_slice ==
  /\ pc = "dedupe_loop"
  /\ Len(locals) = Len(all_items)
  /\ digests' = Append(digests, result)
  /\ pc' = "done"
  /\ UNCHANGED << policy, dedupeVars, urlVars, matcherVars, fuzzyVars,
                  feedVars, run, parsed, responses,
                  invocations >>

\* dedupe returns result; main takes [:MAX_RESULTS_PER_DAY] of it and gives
\* that to make_pdf
DedupeReturns ==
  /\ pc = "dedupe_loop"
  /\ Len(locals) = Len(all_items)
  /\ digests' = Append(digests, Take(result, MAX_RESULTS_PER_DAY))
  /\ pc' = "done"
  /\ UNCHANGED << policy, dedupeVars, urlVars, matcherVars, fuzzyVars,
                  feedVars, run, parsed, responses,
                  invocations >>

NextDigest == DigestStepA \/ DigestStepB \/ DedupeReturns

SpecDigest == InitDigest /\ [][NextDigest]_vars

\* how many of the items 1..i survived dedupe
Survivors(i) == Cardinality({ j \in 1..i : Kept(j) })

Least(a, b) == IF a <= b THEN a ELSE b

\* C16: the final digest is the list of the survivors of dedupe in the order
\* of the input, cut after MAX_RESULTS_PER_DAY (500 in Policy A, 600 in Policy
\* B): the k-th surviving item of the input is the k-th item of the digest for
\* every k up to the maximum, and the digest has no other items, so no item is
\* moved or repeated and the length never exceeds the maximum.
C16_DigestIsFirstSurvivors ==
  (pc = "done" /\ digests # << >>) =>
    /\ Len(digests[1]) <= (IF policy = "A" THEN 500 ELSE 600)
    /\ Len(digests[1]) = Least(Survivors(Len(all_items)), MAX_RESULTS_PER_DAY)
    /\ \A i \in 1..Len(all_items) :
         (Kept(i) /\ Survivors(i) <= Len(digests[1])) =>
           digests[1][Survivors(i)] = all_items[i]

\* a list with repeats and more survivors than the digest takes: items 3 and
\* 5 were dropped, and the digest is cut at the maximum
C16_Witness ==
  /\ pc = "done" /\ digests # << >>
  /\ Len(locals) > MAX_RESULTS_PER_DAY
  /\ locals[3].why = "url" /\ locals[5].why = "title"
  /\ Survivors(Len(all_items)) > MAX_RESULTS_PER_DAY
  /\ Len(digests[1]) = MAX_RESULTS_PER_DAY
  /\ digests[1][3] = all_items[4]
  /\ digests[1][Len(digests[1])] = all_items[Len(digests[1]) + 2]

(***************************************************************************)
(* find_matching_keywords called by several threads at once on the one     *)
(* global BODY_FETCH_BUDGET, which the script reads and writes without a   *)
(* lock.  A step is one read of the budget ("BODY_FETCH_BUDGET > 0"), one  *)
(* update ("BODY_FETCH_BUDGET -= 1") or one fetch_article_text; the tiers  *)
(* that do not touch the budget are decided as the call begins.            *)
(***************************************************************************)
MaxInvocations == 2

Threads == 1..MaxInvocations

At(t, at, bbc) == [ invocations EXCEPT ![t] = [ at |-> at, bbc |-> bbc ] ]

InitConcurrent ==
  /\ pc = "matching"
  /\ policy = "B"
  /\ MatcherIdle
  /\ run = 1 /\ parsed = << >> /\ responses = << >> /\ digests = << >>
  /\ invocations = [ t \in Threads |-> [ at |-> "idle", bbc |-> FALSE ] ]
  /\ DedupeIdle /\ UrlIdle /\ FuzzyIdle /\ FeedIdle

\* the budget, the positions of the calls: the rest stays
ConcurrentFrame ==
  UNCHANGED << pc, policy, dedupeVars, urlVars, fuzzyVars, feedVars,
               article_cache, fetch_calls, call, run, parsed, responses,
               digests >>

\* where a call on e and url goes before it first reads the budget
TierEntered(e) ==
  IF Tier1Of[e] # None THEN "idle"
  ELSE IF SurnameRuleOf[e] # None
  THEN (IF SummaryHasFullName[e] THEN "idle" ELSE "tier2_test")
  ELSE IF HasBodyTriggerOf[e] THEN "tier3_test" ELSE "idle"

\* a thread calls find_matching_keywords: tier 1, the surname of tier 2, the
\* trigger of tier 3
Begin(t) ==
  /\ invocations[t].at = "idle"
  /\ \E e \in Texts, url \in MatcherUrls :
       invocations' = At(t, TierEntered(e), IsBBC(MatcherDomainOf[url]))
  /\ BODY_FETCH_BUDGET' = BODY_FETCH_BUDGET
  /\ ConcurrentFrame

\* tier 2: if BODY_FETCH_BUDGET > 0, else return False, None
Tier2Test(t) ==
  /\ invocations[t].at = "tier2_test"
  /\ invocations' = At(t, IF BODY_FETCH_BUDGET > 0 THEN "tier2_decrement"
                          ELSE "idle", invocations[t].bbc)
  /\ BODY_FETCH_BUDGET' = BODY_FETCH_BUDGET
  /\ ConcurrentFrame

\* tier 3: if BODY_FETCH_BUDGET > 0 or the domain is the BBC's
Tier3Test(t) ==
  /\ invocations[t].at = "tier3_test"
  /\ invocations' = At(t, IF BODY_FETCH_BUDGET > 0 \/ invocations[t].bbc
                          THEN "tier3_test_again" ELSE "idle",
                       invocations[t].bbc)
  /\ BODY_FETCH_BUDGET' = BODY_FETCH_BUDGET
  /\ ConcurrentFrame

\* tier 3: if BODY_FETCH_BUDGET > 0, inside the first test
Tier3TestAgain(t) ==
  /\ invocations[t].at = "tier3_test_again"
  /\ invocations' = At(t, IF BODY_FETCH_BUDGET > 0 THEN "tier3_decrement"
                          ELSE "fetch", invocations[t].bbc)
  /\ BODY_FETCH_BUDGET' = BODY_FETCH_BUDGET
  /\ ConcurrentFrame

\* BODY_FETCH_BUDGET -= 1
Decrement(t) ==
  /\ invocations[t].at \in {"tier2_decrement", "tier3_decrement"}
  /\ BODY_FETCH_BUDGET' = BODY_FETCH_BUDGET - 1
  /\ invocations' = At(t, "fetch", invocations[t].bbc)
  /\ ConcurrentFrame

\* article_text = fetch_article_text(url), and the call returns
Fetch(t) ==
  /\ invocations[t].at = "fetch"
  /\ invocations' = At(t, "idle", invocations[t].bbc)
  /\ BODY_FETCH_BUDGET' = BODY_FETCH_BUDGET
  /\ ConcurrentFrame

Step(t) ==
  \/ Begin(t)
  \/ Tier2Test(t)
  \/ Tier3Test(t)
  \/ Tier3TestAgain(t)
  \/ Decrement(t)
  \/ Fetch(t)

NextConcurrent == \E t \in Threads : Step(t)

SpecConcurrent == InitConcurrent /\ [][NextConcurrent]_vars

\* the thread is inside a call
InCall(t) == invocations[t].at # "idle"

\* C21: when calls of find_matching_keywords interleave between the test
\* "BODY_FETCH_BUDGET > 0" and the update "BODY_FETCH_BUDGET -= 1", the budget
\* is never negative, and a thread inside a call can always take its next
\* step: none waits for budget.
C21_FloorUnderInterleaving ==
  /\ BODY_FETCH_BUDGET >= 0
  /\ \A t \in Threads : InCall(t) => ENABLED Step(t)

====
